---------------------------- MODULE Spec2Model ----------------------------
(***************************************************************************)
(* A model of the lakesql emulator backend: the permission store held by   *)
(* EmulatorBackend, the EmulatorEngine that answers checks from its cached *)
(* copy of the store, and the row-filter ExpressionEvaluator.              *)
(*                                                                         *)
(* Conventions.                                                            *)
(*   Option<T>   is a set with at most one element: None == {}, Some(x).   *)
(*   HashMap     is a function whose DOMAIN is the set of present keys.    *)
(*   Vec<T>      is a sequence.                                            *)
(*   Text that the code inspects (row-filter expressions, data-location    *)
(*   paths) is a sequence of lexemes: each punctuation character the code  *)
(*   looks for (space, =, !, quotes, parentheses) is a lexeme of its own,  *)
(*   and a word (an identifier, a keyword, a number) is one lexeme.  A     *)
(*   string value that the code only compares (a row value, a context      *)
(*   value) is the one-word text <<w>>.                                    *)
(***************************************************************************)
EXTENDS Integers, Sequences, FiniteSets, TLC

VARIABLES
    state,       \* EmulatorBackend.state : EmulatorState
    engine,      \* EmulatorBackend.engine.state : EmulatorState (the cache)
    state_file,  \* EmulatorBackend.state_file is Some(path)
    file,        \* the snapshot on disk at that path: None or Some(EmulatorState)
    last,        \* history: the operation that returned last, its arguments,
                 \* and the entries it removed from the permission list
    core,        \* a lakesql-core PermissionEngine: permissions, tags,
                 \* session_context
    calls        \* the calls in progress on the backend, one slot per caller:
                 \* the operation, its arguments and the statement it is at

vars == <<state, engine, state_file, file, last, core, calls>>

None == {}
Some(x) == {x}

\* The field names of the model's records.  TLC keeps the fields of a record in
\* the order in which their names first occur in the module; every record
\* below lists its fields in this order, so that no record is ever reordered.
FieldNames ==
    [op |-> {}, kind |-> {}, name |-> {}, tag_values |-> {}, database |-> {},
     table |-> {}, columns |-> {}, path |-> {}, tag_conditions |-> {},
     expression |-> {}, permissions |-> {}, roles |-> {}, tags |-> {},
     session_context |-> {}, principal |-> {}, resource |-> {}, actions |-> {},
     grant_option |-> {}, row_filter |-> {}, key |-> {}, values |-> {},
     description |-> {}, ok |-> {}, value |-> {}, error |-> {}, region |-> {},
     department |-> {}, customer_id |-> {}, amount |-> {}, status |-> {},
     manager |-> {}, level |-> {}, classification |-> {}, database_owner |-> {},
     access_level |-> {}, permission |-> {}, tag |-> {}, context |-> {},
     role |-> {}, user |-> {}, result |-> {}, removed |-> {}, eng |-> {},
     mgr |-> {}, pc |-> {}, c1 |-> {}, c2 |-> {}, action |-> {},
     row_data |-> {}]

-----------------------------------------------------------------------------
(* lakesql-core/src/types.rs : the domain model                            *)

User(u) == [kind |-> "User", name |-> u]
Role(r) == [kind |-> "Role", name |-> r]
SamlGroup(g) == [kind |-> "SamlGroup", name |-> g]
ExternalAccount(a) == [kind |-> "ExternalAccount", name |-> a]
TaggedPrincipal(k, vs) == [kind |-> "TaggedPrincipal", name |-> k, tag_values |-> vs]

Database(n) == [kind |-> "Database", name |-> n]
Table(d, t, cols) == [kind |-> "Table", database |-> d, table |-> t, columns |-> cols]
DataLocation(p) == [kind |-> "DataLocation", path |-> p]
TaggedResource(conds) == [kind |-> "TaggedResource", tag_conditions |-> conds]

Action ==
    {"Select", "Insert", "Update", "Delete", "CreateTable", "DropTable",
     "AlterTable", "Describe", "DataLocationAccess", "GrantWithGrantOption"}

RowFilter(text) == [expression |-> text, session_context |-> None]

Permission(p, r, as, go, rf) ==
    [principal |-> p, resource |-> r, actions |-> as, grant_option |-> go,
     row_filter |-> rf]

LfTag(k, vs) == [key |-> k, values |-> vs, description |-> None]

\* Vec::contains
Contains(seq, x) == \E i \in 1..Len(seq) : seq[i] = x

\* str::starts_with on texts
StartsWith(s, pre) == Len(pre) <= Len(s) /\ SubSeq(s, 1, Len(pre)) = pre

\* str::ends_with on texts
EndsWith(s, suf) ==
    Len(suf) <= Len(s) /\ SubSeq(s, Len(s) - Len(suf) + 1, Len(s)) = suf

\* Principal::matches
PrincipalMatchesCore(self, other) ==
    /\ self.kind = other.kind
    /\ self.kind \in {"User", "Role", "SamlGroup", "ExternalAccount"}
    /\ self.name = other.name

\* is_covered_by that lets a Table cover only the requests that name no
\* column outside its column subset
IsCoveredByColumns(self, other) ==
    CASE self.kind = "Table" /\ other.kind = "Table" ->
            /\ self.database = other.database
            /\ self.table = other.table
            /\ \/ other.columns = None
               \/ /\ self.columns # None
                  /\ \A c \in self.columns, g \in other.columns :
                        \A i \in 1..Len(c) : Contains(g, c[i])
      [] self.kind = "Table" /\ other.kind = "Database" ->
            self.database = other.name
      [] self.kind = "Database" /\ other.kind = "Database" ->
            self.name = other.name
      [] self.kind = "DataLocation" /\ other.kind = "DataLocation" ->
            StartsWith(self.path, other.path) \/ self.path = other.path
      [] OTHER -> FALSE

\* is_covered_by with a Database covering the tables of every database
IsCoveredByAnyDatabase(self, other) ==
    CASE self.kind = "Table" /\ other.kind = "Table" ->
            self.database = other.database /\ self.table = other.table
      [] self.kind = "Table" /\ other.kind = "Database" -> TRUE
      [] self.kind = "Database" /\ other.kind = "Database" ->
            self.name = other.name
      [] OTHER -> FALSE

\* is_covered_by with a Table covering its database and the tables next to it
IsCoveredBySameDatabase(self, other) ==
    CASE self.kind = "Table" /\ other.kind = "Table" ->
            self.database = other.database
      [] self.kind = "Table" /\ other.kind = "Database" ->
            self.database = other.name
      [] self.kind = "Database" /\ other.kind = "Database" ->
            self.name = other.name
      [] self.kind = "Database" /\ other.kind = "Table" ->
            self.name = other.database
      [] OTHER -> FALSE

\* Resource::is_covered_by
IsCoveredBy(self, other) ==
    CASE self.kind = "Table" /\ other.kind = "Table" ->
            self.database = other.database /\ self.table = other.table
      [] self.kind = "Table" /\ other.kind = "Database" ->
            self.database = other.name
      [] self.kind = "Database" /\ other.kind = "Database" ->
            self.name = other.name
      [] self.kind = "DataLocation" /\ other.kind = "DataLocation" ->
            StartsWith(self.path, other.path) \/ self.path = other.path
      [] OTHER -> FALSE

-----------------------------------------------------------------------------
(* HashMap operations                                                      *)

EmptyMap == [k \in {} |-> {}]
MapInsert(m, k, v) == [x \in DOMAIN m \cup {k} |-> IF x = k THEN v ELSE m[x]]
MapRemove(m, k) == [x \in DOMAIN m \ {k} |-> m[x]]

-----------------------------------------------------------------------------
(* lakesql-emulator/src/expression.rs : ExpressionEvaluator                *)

Ok(v) == [ok |-> TRUE, value |-> v]
Err(e) == [ok |-> FALSE, error |-> e]

\* A panic raised inside the evaluator.  It leaves every caller the way an
\* error leaves it through `?`, but no caller catches it: where a result has
\* Panicked, the call that asked for it does not return.
Panic == [ok |-> FALSE, error |-> "panic"]
Panicked(result) == ~result.ok /\ result.error = "panic"

\* str::to_uppercase, lexeme by lexeme, for the words the code compares
\* after upper-casing
UpperWord(w) ==
    CASE w \in {"where", "Where"} -> "WHERE"
      [] w \in {"true", "True"} -> "TRUE"
      [] w \in {"false", "False"} -> "FALSE"
      [] OTHER -> w

ToUppercase(s) == [i \in 1..Len(s) |-> UpperWord(s[i])]

RECURSIVE TrimStart(_)
TrimStart(s) ==
    IF Len(s) > 0 /\ s[1] = " " THEN TrimStart(Tail(s)) ELSE s

RECURSIVE TrimEnd(_)
TrimEnd(s) ==
    IF Len(s) > 0 /\ s[Len(s)] = " " THEN TrimEnd(SubSeq(s, 1, Len(s) - 1)) ELSE s

\* str::trim
Trim(s) == TrimEnd(TrimStart(s))

\* str::trim_matches(c)
RECURSIVE TrimMatches(_, _)
TrimMatches(s, c) ==
    IF Len(s) > 0 /\ s[1] = c THEN TrimMatches(Tail(s), c)
    ELSE IF Len(s) > 0 /\ s[Len(s)] = c
         THEN TrimMatches(SubSeq(s, 1, Len(s) - 1), c)
         ELSE s

\* str::find : the first position at which pat occurs in s, 0 for None
Find(s, pat) ==
    LET hits == {i \in 1..(Len(s) - Len(pat) + 1) :
                    SubSeq(s, i, i + Len(pat) - 1) = pat}
    IN  IF hits = {} THEN 0 ELSE CHOOSE i \in hits : \A j \in hits : i <= j

\* str::contains
ContainsText(s, pat) == Find(s, pat) # 0

\* str::split(pat).collect()
RECURSIVE SplitText(_, _)
SplitText(s, pat) ==
    LET pos == Find(s, pat)
    IN  IF pos = 0 THEN <<s>>
        ELSE <<SubSeq(s, 1, pos - 1)>>
                 \o SplitText(SubSeq(s, pos + Len(pat), Len(s)), pat)

\* ExpressionEvaluator::split_comparison : None, or Some(<<left, right>>)
SplitComparison(expr, op) ==
    LET pos == Find(expr, op)
    IN  IF pos # 0
        THEN Some(<<SubSeq(expr, 1, pos - 1),
                    SubSeq(expr, pos + Len(op), Len(expr))>>)
        ELSE None

\* ExpressionEvaluator::get_session_context
GetSessionContext(key, session_context) ==
    IF \E k \in DOMAIN session_context : <<k>> = key
    THEN Ok(<<session_context[key[1]]>>)
    ELSE Err("SessionContextKeyNotFound")

\* f64 parsing succeeds on the number words of the model
IsNumber(value) == Len(value) = 1 /\ value[1] \in {"12345", "1000.00", "42"}

\* ExpressionEvaluator::resolve_value
ResolveValue(raw, session_context, row_data) ==
    LET value == Trim(raw)
    IN  IF \/ StartsWith(value, <<"'">>) /\ EndsWith(value, <<"'">>)
           \/ StartsWith(value, <<"\"">>) /\ EndsWith(value, <<"\"">>)
        THEN IF Len(value) < 2
             THEN Panic      \* value[1..value.len()-1] on a lone quote: 1..0
             ELSE Ok(SubSeq(value, 2, Len(value) - 1))
        ELSE IF StartsWith(value, <<"SESSION_CONTEXT", "(">>) /\ EndsWith(value, <<")">>)
        THEN GetSessionContext(
                 TrimMatches(TrimMatches(SubSeq(value, 3, Len(value) - 1), "'"), "\""),
                 session_context)
        ELSE IF \E c \in DOMAIN row_data : <<c>> = value
        THEN Ok(<<row_data[value[1]]>>)
        ELSE IF IsNumber(value)
        THEN Ok(value)
        ELSE Ok(value)

\* ExpressionEvaluator::evaluate_equals
EvaluateEquals(left, right, session_context, row_data) ==
    LET left_value == ResolveValue(left, session_context, row_data)
        right_value == ResolveValue(right, session_context, row_data)
    IN  IF ~left_value.ok THEN left_value
        ELSE IF ~right_value.ok THEN right_value
        ELSE Ok(left_value.value = right_value.value)

\* ExpressionEvaluator::evaluate_session_context_expression
EvaluateSessionContextExpression(expr, session_context, row_data) ==
    LET cmp == SplitComparison(expr, <<"=">>)
    IN  IF cmp # None
        THEN LET lr == CHOOSE x \in cmp : TRUE
             IN  EvaluateEquals(Trim(lr[1]), Trim(lr[2]), session_context, row_data)
        ELSE Err("CannotEvaluateSessionContextExpression")

RECURSIVE EvaluateExpression(_, _, _)
RECURSIVE EvaluateAndParts(_, _, _)
RECURSIVE EvaluateOrParts(_, _, _)

\* the loop of ExpressionEvaluator::evaluate_logical_and over the parts
EvaluateAndParts(parts, session_context, row_data) ==
    IF parts = <<>> THEN Ok(TRUE)
    ELSE LET r == EvaluateExpression(Trim(Head(parts)), session_context, row_data)
         IN  IF ~r.ok THEN r
             ELSE IF ~r.value THEN Ok(FALSE)
             ELSE EvaluateAndParts(Tail(parts), session_context, row_data)

\* the loop of ExpressionEvaluator::evaluate_logical_or over the parts
EvaluateOrParts(parts, session_context, row_data) ==
    IF parts = <<>> THEN Ok(FALSE)
    ELSE LET r == EvaluateExpression(Trim(Head(parts)), session_context, row_data)
         IN  IF ~r.ok THEN r
             ELSE IF r.value THEN Ok(TRUE)
             ELSE EvaluateOrParts(Tail(parts), session_context, row_data)

\* ExpressionEvaluator::evaluate_logical_and
EvaluateLogicalAnd(expr, session_context, row_data) ==
    EvaluateAndParts(SplitText(expr, <<" ", "AND", " ">>), session_context, row_data)

\* ExpressionEvaluator::evaluate_logical_or
EvaluateLogicalOr(expr, session_context, row_data) ==
    EvaluateOrParts(SplitText(expr, <<" ", "OR", " ">>), session_context, row_data)

\* ExpressionEvaluator::evaluate_expression
EvaluateExpression(raw, session_context, row_data) ==
    LET trimmed == Trim(raw)
        expr == IF StartsWith(ToUppercase(trimmed), <<"WHERE", " ">>)
                THEN SubSeq(trimmed, 3, Len(trimmed))
                ELSE trimmed
        eq == SplitComparison(expr, <<"=">>)
        ne == SplitComparison(expr, <<"!", "=">>)
    IN  IF eq # None
        THEN LET lr == CHOOSE x \in eq : TRUE
             IN  EvaluateEquals(Trim(lr[1]), Trim(lr[2]), session_context, row_data)
        ELSE IF ne # None
        THEN LET lr == CHOOSE x \in ne : TRUE
                 equals == EvaluateEquals(Trim(lr[1]), Trim(lr[2]),
                                          session_context, row_data)
             IN  IF ~equals.ok THEN equals ELSE Ok(~equals.value)
        ELSE IF ContainsText(expr, <<"SESSION_CONTEXT">>)
        THEN EvaluateSessionContextExpression(expr, session_context, row_data)
        ELSE IF ContainsText(expr, <<" ", "AND", " ">>)
        THEN EvaluateLogicalAnd(expr, session_context, row_data)
        ELSE IF ContainsText(expr, <<" ", "OR", " ">>)
        THEN EvaluateLogicalOr(expr, session_context, row_data)
        ELSE IF ToUppercase(expr) = <<"TRUE">> THEN Ok(TRUE)
        ELSE IF ToUppercase(expr) = <<"FALSE">> THEN Ok(FALSE)
        ELSE Err("CannotEvaluateExpression")

\* ExpressionEvaluator::evaluate_filter
EvaluateFilter(filter, session_context, row_data) ==
    EvaluateExpression(filter.expression, session_context, row_data)

-----------------------------------------------------------------------------
(* lakesql-emulator/src/engine.rs : EmulatorEngine                         *)

\* str::contains("finance") on the database names of the model
NameContainsFinance(name) == name \in {"finance", "finance_eu"}

\* EmulatorEngine::create_sample_row_data
CreateSampleRowData(resource) ==
    CASE resource.kind = "Table" ->
            (CASE resource.database = "sales" /\ resource.table = "orders" ->
                    [region |-> "west", department |-> "sales",
                     customer_id |-> "12345", amount |-> "1000.00",
                     status |-> "active"]
               [] resource.database = "hr" /\ resource.table = "employees" ->
                    [region |-> "west", department |-> "engineering",
                     manager |-> "john_doe", level |-> "senior"]
               [] resource.database = "finance" /\ resource.table = "transactions" ->
                    [region |-> "east", department |-> "finance",
                     classification |-> "confidential"]
               [] OTHER ->
                    [region |-> "west", department |-> "general"])
      [] resource.kind = "Database" ->
            IF NameContainsFinance(resource.name)
            THEN [department |-> "finance", classification |-> "internal",
                  database_owner |-> "admin"]
            ELSE [classification |-> "internal", database_owner |-> "admin"]
      [] OTHER -> [access_level |-> "public"]

\* EmulatorEngine::evaluate_row_filter
EvaluateRowFilter(st, row_filter, resource) ==
    LET result == EvaluateFilter(row_filter, st.session_context,
                                 CreateSampleRowData(resource))
    IN  IF result.ok THEN result.value ELSE FALSE

\* evaluate_row_filter does not return: the evaluation panics
EvaluateRowFilterPanics(st, row_filter, resource) ==
    Panicked(EvaluateFilter(row_filter, st.session_context,
                            CreateSampleRowData(resource)))

\* mutant: principal_matches that compares the names of two principals
\* whatever their kinds are
PrincipalMatchesByName(st, request_principal, permission_principal) ==
    CASE request_principal.kind = "TaggedPrincipal" -> FALSE
      [] permission_principal.kind = "TaggedPrincipal" -> FALSE
      [] request_principal.kind = "User" /\ permission_principal.kind = "Role" ->
            IF permission_principal.name \in DOMAIN st.roles
            THEN request_principal.name \in st.roles[permission_principal.name]
            ELSE FALSE
      [] OTHER -> request_principal.name = permission_principal.name

\* EmulatorEngine::principal_matches
PrincipalMatches(st, request_principal, permission_principal) ==
    CASE request_principal.kind = "User" /\ permission_principal.kind = "User" ->
            request_principal.name = permission_principal.name
      [] request_principal.kind = "Role" /\ permission_principal.kind = "Role" ->
            request_principal.name = permission_principal.name
      [] request_principal.kind = "SamlGroup" /\ permission_principal.kind = "SamlGroup" ->
            request_principal.name = permission_principal.name
      [] request_principal.kind = "ExternalAccount"
           /\ permission_principal.kind = "ExternalAccount" ->
            request_principal.name = permission_principal.name
      [] request_principal.kind = "User" /\ permission_principal.kind = "Role" ->
            IF permission_principal.name \in DOMAIN st.roles
            THEN request_principal.name \in st.roles[permission_principal.name]
            ELSE FALSE
      [] OTHER -> FALSE

\* mutant: matches_permission in which an entry with the grant option allows
\* every action
MatchesPermissionGrantOptionImplies(st, principal, resource, action, permission) ==
    IF ~PrincipalMatches(st, principal, permission.principal) THEN FALSE
    ELSE IF ~(Contains(permission.actions, action) \/ permission.grant_option) THEN FALSE
    ELSE IF ~IsCoveredBy(resource, permission.resource) THEN FALSE
    ELSE IF permission.row_filter # None
    THEN EvaluateRowFilter(st, CHOOSE f \in permission.row_filter : TRUE, resource)
    ELSE TRUE

\* mutant: matches_permission without the resource coverage test
MatchesPermissionNoCoverage(st, principal, resource, action, permission) ==
    IF ~PrincipalMatches(st, principal, permission.principal) THEN FALSE
    ELSE IF ~Contains(permission.actions, action) THEN FALSE
    ELSE IF permission.row_filter # None
            /\ ~EvaluateRowFilter(st, CHOOSE f \in permission.row_filter : TRUE, resource)
    THEN FALSE
    ELSE TRUE

\* EmulatorEngine::matches_permission
MatchesPermission(st, principal, resource, action, permission) ==
    IF ~PrincipalMatches(st, principal, permission.principal) THEN FALSE
    ELSE IF ~Contains(permission.actions, action) THEN FALSE
    ELSE IF ~IsCoveredBy(resource, permission.resource) THEN FALSE
    ELSE IF permission.row_filter # None
            /\ ~EvaluateRowFilter(st, CHOOSE f \in permission.row_filter : TRUE, resource)
    THEN FALSE
    ELSE TRUE

\* mutant: the scan gives up, denying, at the first entry whose row filter
\* fails to evaluate
RECURSIVE CheckPermissionFromAbort(_, _, _, _, _)
CheckPermissionFromAbort(st, i, principal, resource, action) ==
    IF i > Len(st.permissions) THEN FALSE
    ELSE IF /\ st.permissions[i].row_filter # None
            /\ ~EvaluateFilter(CHOOSE f \in st.permissions[i].row_filter : TRUE,
                               st.session_context,
                               CreateSampleRowData(resource)).ok
    THEN FALSE
    ELSE IF MatchesPermission(st, principal, resource, action, st.permissions[i])
    THEN TRUE
    ELSE CheckPermissionFromAbort(st, i + 1, principal, resource, action)

\* the loop of EmulatorEngine::check_permission from entry i on
RECURSIVE CheckPermissionFrom(_, _, _, _, _)
CheckPermissionFrom(st, i, principal, resource, action) ==
    IF i > Len(st.permissions) THEN FALSE
    ELSE IF MatchesPermission(st, principal, resource, action, st.permissions[i])
    THEN TRUE
    ELSE CheckPermissionFrom(st, i + 1, principal, resource, action)

\* EmulatorEngine::check_permission
CheckPermission(st, principal, resource, action) ==
    CheckPermissionFrom(st, 1, principal, resource, action)

\* mutant: update_state that copies the permissions, the tags and the
\* session context, and not the roles
UpdateStateWithoutRoles(st) == [st EXCEPT !.roles = EmptyMap]

\* update_state that keeps the session context the engine already had
UpdateStateStaleContext(st) == [st EXCEPT !.session_context = engine.session_context]

\* matches_permission does not return: it reaches the row filter of the
\* entry and the evaluation panics
MatchesPermissionPanics(st, principal, resource, action, permission) ==
    /\ PrincipalMatches(st, principal, permission.principal)
    /\ Contains(permission.actions, action)
    /\ IsCoveredBy(resource, permission.resource)
    /\ permission.row_filter # None
    /\ EvaluateRowFilterPanics(st, CHOOSE f \in permission.row_filter : TRUE, resource)

\* check_permission does not return: the scan reaches an entry on which
\* matches_permission panics
CheckPermissionPanics(st, principal, resource, action) ==
    \E i \in 1..Len(st.permissions) :
        /\ MatchesPermissionPanics(st, principal, resource, action, st.permissions[i])
        /\ \A j \in 1..(i - 1) :
              /\ ~MatchesPermissionPanics(st, principal, resource, action,
                                          st.permissions[j])
              /\ ~MatchesPermission(st, principal, resource, action, st.permissions[j])

\* check_permission_with_reason : the four booleans it computes for an entry
ReasonOfEntry(st, principal, resource, action, permission) ==
    <<PrincipalMatches(st, principal, permission.principal),
      Contains(permission.actions, action),
      IsCoveredBy(resource, permission.resource),
      IF permission.row_filter = None
      THEN TRUE
      ELSE EvaluateRowFilter(st, CHOOSE f \in permission.row_filter : TRUE, resource)>>

\* check_permission_with_reason : the loop from entry i on, with the reasons
\* pushed so far; the result is <<allowed, reasons>>
RECURSIVE CheckPermissionWithReasonFrom(_, _, _, _, _, _)
CheckPermissionWithReasonFrom(st, i, reasons, principal, resource, action) ==
    IF i > Len(st.permissions) THEN <<FALSE, reasons>>
    ELSE LET m == ReasonOfEntry(st, principal, resource, action, st.permissions[i])
         IN  IF m[1] /\ m[2] /\ m[3] /\ m[4]
             THEN <<TRUE, Append(reasons, m)>>
             ELSE CheckPermissionWithReasonFrom(st, i + 1, Append(reasons, m),
                                                principal, resource, action)

\* EmulatorEngine::check_permission_with_reason
CheckPermissionWithReason(st, principal, resource, action) ==
    CheckPermissionWithReasonFrom(st, 1, <<>>, principal, resource, action)

\* check_permission_with_reason does not return: it evaluates the row filter
\* of every entry it reaches, and one of the evaluations panics
CheckPermissionWithReasonPanics(st, principal, resource, action) ==
    \E i \in 1..Len(st.permissions) :
        /\ st.permissions[i].row_filter # None
        /\ EvaluateRowFilterPanics(st, CHOOSE f \in st.permissions[i].row_filter : TRUE,
                                   resource)
        /\ \A j \in 1..(i - 1) :
              /\ ~(st.permissions[j].row_filter # None
                   /\ EvaluateRowFilterPanics(
                          st, CHOOSE f \in st.permissions[j].row_filter : TRUE, resource))
              /\ LET m == ReasonOfEntry(st, principal, resource, action,
                                        st.permissions[j])
                 IN  ~(m[1] /\ m[2] /\ m[3] /\ m[4])

\* EmulatorEngine::update_state
UpdateState(st) == st

-----------------------------------------------------------------------------
(* Bounds and the inputs the operations are driven with                    *)

\* the longest permission list the model builds
MaxPerms == 2

SalesOrders == Table("sales", "orders", None)

\* region = SESSION_CONTEXT('user_region')
RegionFilterText ==
    <<"region", " ", "=", " ", "SESSION_CONTEXT", "(", "'", "user_region", "'", ")">>

\* the (principal, resource) pairs that grant and revoke are driven with;
\* User("mgr") is a user who shares the name of a role
GrantKeys ==
    ({Role("mgr"), User("mgr")} \X {SalesOrders, Database("sales")})
        \cup {<<Role("eng"), SalesOrders>>}

\* the permissions handed to grant: each pair with two different sets of
\* attributes
GrantInputs ==
    {Permission(k[1], k[2], <<"Select", "Insert", "Delete">>, FALSE, None) :
        k \in GrantKeys}
    \cup
    {Permission(k[1], k[2], <<"Select">>, TRUE, Some(RowFilter(RegionFilterText))) :
        k \in GrantKeys}

\* the action lists handed to revoke
RevokeActionLists == {<<"Delete">>}

\* a text evaluate_expression cannot evaluate
BogusFilterText == <<"bogus">>

\* the permissions of the states handed to EmulatorEngine::update_state
EnginePermissions ==
    {Permission(p, SalesOrders, <<"Select", "Insert">>, FALSE, f) :
        p \in {Role("mgr"), User("bob")},
        f \in {None, Some(RowFilter(RegionFilterText))}}
    \cup
    {Permission(Role("mgr"), SalesOrders, <<"Select", "Insert">>, FALSE,
                Some(RowFilter(BogusFilterText)))}
    \cup
    {Permission(Role("mgr"), Database("sales"), <<"Select", "Insert">>, FALSE, None)}

\* the role maps of those states
EngineRoleMaps == {EmptyMap, [mgr |-> {"bob"}]}

RoleNames == {"eng", "mgr"}
TagInputs == {LfTag("department", <<"finance", "marketing">>)}
TagKeys == {"department"}
ContextInputs == {EmptyMap, [user_region |-> "west"], [user_region |-> "east"]}

-----------------------------------------------------------------------------
(* lakesql-emulator/src/lib.rs : EmulatorBackend                           *)

\* PermissionEngine::new
NewCore ==
    [permissions |-> <<>>, tags |-> EmptyMap, session_context |-> EmptyMap]

\* the callers that share the backend, and a caller with no call in progress
Callers == {"c1", "c2"}
Idle == [pc |-> "idle"]
NoCalls == [c \in Callers |-> Idle]

\* EmulatorState::new
NewState ==
    [permissions |-> <<>>, roles |-> EmptyMap, tags |-> EmptyMap,
     session_context |-> EmptyMap]

\* EmulatorBackend::save_state : the file after saving st
SaveState(st) == IF state_file THEN Some(st) ELSE file

\* EmulatorBackend::check_permissions : answered by the engine's cache
CheckPermissions(principal, resource, action) ==
    CheckPermission(engine, principal, resource, action)

\* EmulatorBackend::new(Some(path)) with no file at the path yet
Init ==
    /\ state = NewState
    /\ engine = NewState
    /\ state_file = TRUE
    /\ file = None
    /\ last = [op |-> "new"]
    /\ core = NewCore
    /\ calls = NoCalls

\* the tail every mutating handler shares: update_state, then save_state
Commit(st, op) ==
    /\ state' = st
    /\ engine' = UpdateState(st)
    /\ file' = SaveState(st)
    /\ last' = op
    /\ UNCHANGED <<state_file, core, calls>>

\* mutant: the grant appends without removing the entry of the same pair
GrantedAppendOnly(st, permission) ==
    [st EXCEPT !.permissions = Append(@, permission)]

\* mutant: the grant keeps the old entry's actions in front of the new ones
GrantedMergeActions(st, permission) ==
    [st EXCEPT !.permissions =
        Append(SelectSeq(@, LAMBDA p : ~(p.principal = permission.principal
                                          /\ p.resource = permission.resource)),
               LET old == SelectSeq(st.permissions,
                              LAMBDA p : p.principal = permission.principal
                                         /\ p.resource = permission.resource)
               IN  IF old = <<>> THEN permission
                   ELSE [permission EXCEPT !.actions = old[1].actions \o @])]

\* mutant: the grant drops the entries of the key that differ from the
\* permission and keeps one that is equal to it
GrantedKeepEqual(st, permission) ==
    [st EXCEPT !.permissions =
        Append(SelectSeq(@, LAMBDA p : ~(/\ p.principal = permission.principal
                                         /\ p.resource = permission.resource
                                         /\ p # permission)),
               permission)]

\* the store after EmulatorBackend::grant_permissions
Granted(st, permission) ==
    [st EXCEPT !.permissions =
        Append(SelectSeq(@, LAMBDA p : ~(p.principal = permission.principal
                                          /\ p.resource = permission.resource)),
               permission)]

\* the entries of st that the grant of permission replaces
SameKey(st, principal, resource) ==
    SelectSeq(st.permissions,
              LAMBDA p : p.principal = principal /\ p.resource = resource)

\* EmulatorBackend::grant_permissions
GrantPermissions(permission) ==
    /\ Len(Granted(state, permission).permissions) <= MaxPerms
    /\ Commit(Granted(state, permission),
              [op |-> "grant", permission |-> permission,
               removed |-> SameKey(state, permission.principal, permission.resource)])

\* mutant: the revoke subtracts the named actions from the matching entries
\* and drops an entry only when no action is left
RevokedSubtract(st, principal, resource, actions) ==
    LET Hit(p) == /\ p.principal = principal
                  /\ p.resource = resource
                  /\ \E i \in 1..Len(actions) : Contains(p.actions, actions[i])
        Less(p) == [p EXCEPT !.actions =
                       SelectSeq(@, LAMBDA a : ~Contains(actions, a))]
        trimmed == [i \in 1..Len(st.permissions) |->
                       IF Hit(st.permissions[i]) THEN Less(st.permissions[i])
                       ELSE st.permissions[i]]
    IN  [st EXCEPT !.permissions = SelectSeq(trimmed, LAMBDA p : p.actions # <<>>)]

\* mutant: the revoke removes the matching entries of the principal on every
\* resource that covers the named one
RevokedCovering(st, principal, resource, actions) ==
    [st EXCEPT !.permissions =
        SelectSeq(@, LAMBDA p : ~(/\ p.principal = principal
                                  /\ IsCoveredBy(resource, p.resource)
                                  /\ \E i \in 1..Len(actions) :
                                        Contains(p.actions, actions[i])))]

\* the store after EmulatorBackend::revoke_permissions
Revoked(st, principal, resource, actions) ==
    [st EXCEPT !.permissions =
        SelectSeq(@, LAMBDA p : ~(/\ p.principal = principal
                                  /\ p.resource = resource
                                  /\ \E i \in 1..Len(actions) :
                                        Contains(p.actions, actions[i])))]

\* EmulatorBackend::revoke_permissions
RevokePermissions(principal, resource, actions) ==
    Commit(Revoked(state, principal, resource, actions),
           [op |-> "revoke", principal |-> principal, resource |-> resource,
            actions |-> actions,
            removed |-> SelectSeq(state.permissions,
                LAMBDA p : ~Contains(Revoked(state, principal, resource,
                                             actions).permissions, p))])

\* mutant: CreateRole that leaves a role that is already defined as it is
CreateRoleKeepingMembers(name) ==
    Commit([state EXCEPT !.roles =
                IF name \in DOMAIN @ THEN @ ELSE MapInsert(@, name, {})],
           [op |-> "createRole", name |-> name])

\* EmulatorBackend::execute_ddl_direct, DdlStatement::CreateRole
CreateRole(name) ==
    Commit([state EXCEPT !.roles = MapInsert(@, name, {})],
           [op |-> "createRole", name |-> name])

\* DropRole that deletes the permissions of every principal of that name
RoleDroppedByName(st, name) ==
    [st EXCEPT !.roles = MapRemove(@, name),
               !.permissions = SelectSeq(@, LAMBDA p : p.principal.name # name)]

\* the store after DdlStatement::DropRole
RoleDropped(st, name) ==
    [st EXCEPT !.roles = MapRemove(@, name),
               !.permissions =
                   SelectSeq(@, LAMBDA p : ~(p.principal.kind = "Role"
                                             /\ p.principal.name = name))]

\* EmulatorBackend::execute_ddl_direct, DdlStatement::DropRole
DropRole(name) ==
    Commit(RoleDropped(state, name),
           [op |-> "dropRole", name |-> name,
            removed |-> SelectSeq(state.permissions,
                LAMBDA p : ~Contains(RoleDropped(state, name).permissions, p))])

\* EmulatorBackend::create_tag
CreateTag(tag) ==
    Commit([state EXCEPT !.tags = MapInsert(@, tag.key, tag)],
           [op |-> "createTag", tag |-> tag])

\* EmulatorBackend::delete_tag
DeleteTag(tag_key) ==
    Commit([state EXCEPT !.tags = MapRemove(@, tag_key)],
           [op |-> "deleteTag", key |-> tag_key])

\* EmulatorBackend::set_session_context
SetSessionContext(context) ==
    Commit([state EXCEPT !.session_context = context],
           [op |-> "setSessionContext", context |-> context])

\* add_user_to_role that defines the role when it is missing
AddUserToRoleCreating(user, role) ==
    /\ engine' = [engine EXCEPT !.roles =
                     MapInsert(@, role,
                               (IF role \in DOMAIN @ THEN @[role] ELSE {}) \cup {user})]
    /\ last' = [op |-> "addMember", role |-> role, user |-> user,
                result |-> IF role \in DOMAIN engine.roles THEN "Ok" ELSE "RoleNotFound"]
    /\ UNCHANGED <<state, state_file, file, core, calls>>

\* EmulatorEngine::add_user_to_role : acts on the engine's own state
AddUserToRole(user, role) ==
    /\ IF role \in DOMAIN engine.roles
       THEN /\ engine' = [engine EXCEPT !.roles[role] = @ \cup {user}]
            /\ last' = [op |-> "addMember", role |-> role, user |-> user,
                        result |-> "Ok"]
       ELSE /\ engine' = engine
            /\ last' = [op |-> "addMember", role |-> role, user |-> user,
                        result |-> "RoleNotFound"]
    /\ UNCHANGED <<state, state_file, file, core, calls>>

\* EmulatorEngine::remove_user_from_role : acts on the engine's own state
RemoveUserFromRole(user, role) ==
    /\ IF role \in DOMAIN engine.roles
       THEN /\ engine' = [engine EXCEPT !.roles[role] = @ \ {user}]
            /\ last' = [op |-> "removeMember", role |-> role, user |-> user,
                        result |-> "Ok"]
       ELSE /\ engine' = engine
            /\ last' = [op |-> "removeMember", role |-> role, user |-> user,
                        result |-> "RoleNotFound"]
    /\ UNCHANGED <<state, state_file, file, core, calls>>

-----------------------------------------------------------------------------
(* The backend driven by any sequence of its public mutating operations    *)

Next ==
    \/ \E permission \in GrantInputs : GrantPermissions(permission)
    \/ \E k \in GrantKeys, actions \in RevokeActionLists :
            RevokePermissions(k[1], k[2], actions)
    \/ \E name \in RoleNames : CreateRole(name)
    \/ \E name \in RoleNames : DropRole(name)
    \/ \E tag \in TagInputs : CreateTag(tag)
    \/ \E tag_key \in TagKeys : DeleteTag(tag_key)
    \/ \E context \in ContextInputs : SetSessionContext(context)

Spec == Init /\ [][Next]_vars

-----------------------------------------------------------------------------
(* An engine of its own, as the engine's tests use it: update_state with   *)
(* a state built by the caller, and the engine's role-membership methods   *)

\* the permission lists of the states handed to update_state
EnginePermissionLists ==
    UNION {[1..n -> EnginePermissions] : n \in 0..MaxPerms}

\* EmulatorEngine::update_state(&st) on the engine
EngineUpdateState(st) ==
    /\ engine' = UpdateState(st)
    /\ last' = [op |-> "updateState"]
    /\ UNCHANGED <<state, state_file, file, core, calls>>

NextEngine ==
    \/ \E ps \in EnginePermissionLists, rs \in EngineRoleMaps, ctx \in ContextInputs :
            EngineUpdateState([permissions |-> ps, roles |-> rs,
                               tags |-> EmptyMap, session_context |-> ctx])
    \/ \E user \in {"bob"}, role \in {"mgr"} : AddUserToRole(user, role)
    \/ \E user \in {"bob"}, role \in {"mgr"} : RemoveUserFromRole(user, role)

SpecEngine == Init /\ [][NextEngine]_vars

-----------------------------------------------------------------------------
(* The engine over stores that hold a row filter whose right operand is a  *)
(* lone quote: grant_permissions stores any filter text unexamined.        *)

\* the text  region = '
DanglingQuoteText == <<"region", " ", "=", " ", "'">>

DiagPermissions ==
    {Permission(p, SalesOrders, <<"Select">>, FALSE, Some(RowFilter(DanglingQuoteText))) :
        p \in {Role("mgr"), User("bob")}}
    \cup
    {Permission(Role("mgr"), SalesOrders, <<"Select">>, FALSE, f) :
        f \in {None, Some(RowFilter(RegionFilterText))}}

DiagPermissionLists ==
    UNION {[1..n -> DiagPermissions] : n \in 0..MaxPerms}

NextDiag ==
    \E ps \in DiagPermissionLists, rs \in EngineRoleMaps, ctx \in ContextInputs :
        EngineUpdateState([permissions |-> ps, roles |-> rs,
                           tags |-> EmptyMap, session_context |-> ctx])

SpecDiag == Init /\ [][NextDiag]_vars

-----------------------------------------------------------------------------

(* The evaluator on its own: an ExpressionEvaluator is built, given a      *)
(* session context and a row, and asked to evaluate one filter, as         *)
(* evaluate_row_filter and the tests of expression.rs do.                  *)

\* the operands of the comparisons: a column, a quoted literal, a
\* SESSION_CONTEXT call
Col(c) == <<c>>
Lit(w) == <<"'", w, "'">>
Ctx(k) == <<"SESSION_CONTEXT", "(", "'", k, "'", ")">>

\* the texts  l = r ,  l != r ,  x AND y ,  x OR y
Eq(l, r) == l \o <<" ", "=", " ">> \o r
Ne(l, r) == l \o <<" ", "!", "=", " ">> \o r
And(x, y) == x \o <<" ", "AND", " ">> \o y
Or(x, y) == x \o <<" ", "OR", " ">> \o y

EvalOperands ==
    {Col("region"), Col("status"), Lit("west"), Lit("east"), Lit("active"),
     Lit("inactive"), Ctx("user_region"), Ctx("user_department")}

EvalComparisons ==
    {Eq(l, r) : l, r \in EvalOperands} \cup {Ne(l, r) : l, r \in EvalOperands}

\* the parts that the AND and OR texts are made of
EvalParts ==
    {Eq(Col("region"), Ctx("user_region")),
     Eq(Col("department"), Ctx("user_department")),
     Eq(Col("region"), Lit("east")),
     Eq(Col("region"), Lit("west")),
     <<"TRUE">>, <<"FALSE">>}

EvalTexts ==
    EvalComparisons
        \cup {And(x, y) : x, y \in EvalParts}
        \cup {Or(x, y) : x, y \in EvalParts}

EvalContexts ==
    {EmptyMap, [user_region |-> "west"],
     MapInsert([user_region |-> "west"], "user_department", "sales"),
     MapInsert([user_region |-> "east"], "user_department", "sales")}

EvalRows ==
    {CreateSampleRowData(SalesOrders),
     CreateSampleRowData(Table("finance", "transactions", None))}

\* ExpressionEvaluator::new, set_session_context, set_row_data,
\* evaluate_filter: every evaluation is made by an evaluator of its own
EvaluateFilterCall(text, session_context, row_data) ==
    /\ last.op = "new"
    /\ last' = [op |-> "evaluateFilter", expression |-> text,
                session_context |-> session_context,
                result |-> EvaluateFilter(RowFilter(text), session_context, row_data),
                row_data |-> row_data]
    /\ UNCHANGED <<state, engine, state_file, file, core, calls>>

NextEval ==
    \E text \in EvalTexts, ctx \in EvalContexts, row \in EvalRows :
        EvaluateFilterCall(text, ctx, row)

SpecEval == Init /\ [][NextEval]_vars

-----------------------------------------------------------------------------

(* The engine over stores whose entries are held by principals of every    *)
(* kind.                                                                   *)

PrincipalInputs ==
    {User("bob"), User("mgr"), Role("mgr"), SamlGroup("mgr"), ExternalAccount("mgr"),
     TaggedPrincipal("department", <<"finance">>)}

PrincipalPermissions ==
    {Permission(p, SalesOrders, <<"Select">>, FALSE, None) : p \in PrincipalInputs}

PrincipalPermissionLists ==
    UNION {[1..n -> PrincipalPermissions] : n \in 0..MaxPerms}

PrincipalRoleMaps == {EmptyMap, [mgr |-> {}], [mgr |-> {"bob"}]}

NextPrincipals ==
    \E ps \in PrincipalPermissionLists, rs \in PrincipalRoleMaps :
        EngineUpdateState([permissions |-> ps, roles |-> rs,
                           tags |-> EmptyMap, session_context |-> EmptyMap])

SpecPrincipals == Init /\ [][NextPrincipals]_vars

-----------------------------------------------------------------------------

(* The backend with the membership operations of its engine: the role      *)
(* statements and grants of EmulatorBackend, and add_user_to_role and      *)
(* remove_user_from_role applied to the engine the backend checks with.    *)

HrEmployees == Table("hr", "employees", None)
MemberNames == {"bob", "alice"}
MemberGrantInputs ==
    {Permission(Role(r), HrEmployees, <<"Select">>, FALSE, None) : r \in RoleNames}

NextMembers ==
    \/ \E name \in RoleNames : CreateRole(name)
    \/ \E name \in RoleNames : DropRole(name)
    \/ \E user \in MemberNames, role \in RoleNames : AddUserToRole(user, role)
    \/ \E user \in MemberNames, role \in RoleNames : RemoveUserFromRole(user, role)
    \/ \E permission \in MemberGrantInputs : GrantPermissions(permission)

SpecMembers == Init /\ [][NextMembers]_vars

-----------------------------------------------------------------------------
(* The backend constructed over a state file that exists:                  *)
(* EmulatorBackend::new loads it, so the store starts with the roles,      *)
(* members and permissions of the file.                                    *)

StateFiles ==
    {[permissions |->
         <<Permission(Role("eng"), SalesOrders, <<"Select">>, FALSE, None),
           Permission(Role("mgr"), SalesOrders, <<"Select">>, FALSE, None),
           Permission(User("mgr"), SalesOrders, <<"Select">>, FALSE, None)>>,
      roles |-> [eng |-> {"bob"}, mgr |-> {"alice"}],
      tags |-> [department |-> LfTag("department", <<"finance", "marketing">>)],
      session_context |-> [user_region |-> "west"]],
     [permissions |->
         <<Permission(Role("mgr"), Database("sales"), <<"Select">>, FALSE, None)>>,
      roles |-> [eng |-> {"bob", "alice"}, mgr |-> {}],
      tags |-> EmptyMap,
      session_context |-> EmptyMap]}

\* EmulatorBackend::new(Some(path)) with a file at the path
InitLoaded ==
    /\ \E content \in StateFiles :
          /\ state = content
          /\ engine = UpdateState(content)
          /\ file = Some(content)
    /\ state_file = TRUE
    /\ last = [op |-> "new"]
    /\ core = NewCore
    /\ calls = NoCalls

SpecLoaded == InitLoaded /\ [][Next]_vars

-----------------------------------------------------------------------------
(* The backend with a state file, driven by every public operation that    *)
(* can change the store, and restarted after a crash                       *)

\* EmulatorBackend::test_row_level_security
TestRowLevelSecurity(principal, resource, action, session_context) ==
    LET st == [state EXCEPT !.session_context = session_context] IN
    /\ state' = st
    /\ engine' = UpdateState(st)
    /\ last' = [op |-> "testRowLevelSecurity", principal |-> principal,
                resource |-> resource, context |-> session_context,
                result |-> CheckPermission(UpdateState(st), principal, resource, action),
                action |-> action]
    /\ UNCHANGED <<state_file, file, core, calls>>

\* the process ends (or crashes between two operations) and
\* EmulatorBackend::new is called again with the same path
Restart ==
    LET st == IF file = None THEN NewState ELSE CHOOSE content \in file : TRUE IN
    /\ state_file
    /\ state' = st
    /\ engine' = (IF file = None THEN NewState ELSE UpdateState(st))
    /\ last' = [op |-> "restart"]
    /\ UNCHANGED <<state_file, file, core, calls>>

NextPersist ==
    \/ Next
    \/ \E session_context \in ContextInputs :
            TestRowLevelSecurity(Role("mgr"), SalesOrders, "Select", session_context)
    \/ Restart

SpecPersist == Init /\ [][NextPersist]_vars

-----------------------------------------------------------------------------

(* The backend shared by several callers.  grant_permissions takes         *)
(* &mut self and check_permissions takes &self: a call can start only when *)
(* the borrow it needs is free, and holds it until it returns.  The        *)
(* statements of grant_permissions are separate steps.                     *)

\* a caller is inside a method that takes &mut self
Mutating(c) == calls[c].pc # "idle" /\ calls[c].op = "grant"

\* a &mut borrow handed out without regard to the other callers
CanBorrowMutUnchecked(c) == calls[c] = Idle

\* &mut self : no other call is in progress
CanBorrowMut(c) == \A d \in Callers : calls[d] = Idle

\* &self : no call that holds &mut self is in progress
CanBorrow(c) == calls[c] = Idle /\ \A d \in Callers : ~Mutating(d)

\* grant_permissions is called
GrantCall(c, permission) ==
    /\ CanBorrowMut(c)
    /\ Len(Granted(state, permission).permissions) <= MaxPerms
    /\ calls' = [calls EXCEPT ![c] =
                    [op |-> "grant", permission |-> permission, pc |-> "retain"]]
    /\ UNCHANGED <<state, engine, state_file, file, last, core>>

\* grant_permissions : self.state.permissions.retain(..)
GrantRetain(c) ==
    /\ Mutating(c) /\ calls[c].pc = "retain"
    /\ state' = [state EXCEPT !.permissions =
                    SelectSeq(@, LAMBDA p :
                        ~(p.principal = calls[c].permission.principal
                          /\ p.resource = calls[c].permission.resource))]
    /\ calls' = [calls EXCEPT ![c].pc = "push"]
    /\ UNCHANGED <<engine, state_file, file, last, core>>

\* grant_permissions : self.state.permissions.push(permission)
GrantPush(c) ==
    /\ Mutating(c) /\ calls[c].pc = "push"
    /\ state' = [state EXCEPT !.permissions = Append(@, calls[c].permission)]
    /\ calls' = [calls EXCEPT ![c].pc = "update_state"]
    /\ UNCHANGED <<engine, state_file, file, last, core>>

\* grant_permissions : self.engine.update_state(&self.state)
GrantUpdateState(c) ==
    /\ Mutating(c) /\ calls[c].pc = "update_state"
    /\ engine' = UpdateState(state)
    /\ calls' = [calls EXCEPT ![c].pc = "save_state"]
    /\ UNCHANGED <<state, state_file, file, last, core>>

\* grant_permissions : self.save_state().await, and the return
GrantSaveState(c) ==
    /\ Mutating(c) /\ calls[c].pc = "save_state"
    /\ file' = SaveState(state)
    /\ last' = [op |-> "grant", permission |-> calls[c].permission]
    /\ calls' = [calls EXCEPT ![c] = Idle]
    /\ UNCHANGED <<state, engine, state_file, core>>

\* check_permissions is called
CheckCall(c, principal, resource, action) ==
    /\ CanBorrow(c)
    /\ calls' = [calls EXCEPT ![c] =
                    [op |-> "check", principal |-> principal, resource |-> resource,
                     pc |-> "scan", action |-> action]]
    /\ UNCHANGED <<state, engine, state_file, file, last, core>>

\* check_permissions : self.engine.check_permission(..), and the return
CheckScan(c) ==
    /\ calls[c].pc = "scan"
    /\ last' = [op |-> "check", principal |-> calls[c].principal,
                resource |-> calls[c].resource,
                result |-> CheckPermission(engine, calls[c].principal,
                                           calls[c].resource, calls[c].action),
                action |-> calls[c].action]
    /\ calls' = [calls EXCEPT ![c] = Idle]
    /\ UNCHANGED <<state, engine, state_file, file, core>>

SharedGrantInputs ==
    {Permission(p, SalesOrders, as, FALSE, None) :
        p \in {Role("mgr"), User("bob")},
        as \in {<<"Select", "Insert">>, <<"Select">>}}

NextShared ==
    \/ \E c \in Callers, permission \in SharedGrantInputs : GrantCall(c, permission)
    \/ \E c \in Callers : GrantRetain(c)
    \/ \E c \in Callers : GrantPush(c)
    \/ \E c \in Callers : GrantUpdateState(c)
    \/ \E c \in Callers : GrantSaveState(c)
    \/ \E c \in Callers : CheckCall(c, Role("mgr"), SalesOrders, "Insert")
    \/ \E c \in Callers : CheckScan(c)

SpecShared == Init /\ [][NextShared]_vars

-----------------------------------------------------------------------------

(* lakesql-core/src/permissions.rs : PermissionEngine, the store of the    *)
(* core crate, driven by its own operations                                *)

\* RowFilter with a static session-context snapshot
RowFilterWith(text, context) == [expression |-> text, session_context |-> Some(context)]

\* PermissionEngine::evaluate_row_filter
CoreEvaluateRowFilter(c, filter, resource) ==
    IF filter.session_context = None
    THEN TRUE
    ELSE LET context == CHOOSE x \in filter.session_context : TRUE IN
         \A key \in DOMAIN context :
            key \in DOMAIN c.session_context
            => c.session_context[key] = context[key]

\* PermissionEngine::check_permission : the scan from entry i on
RECURSIVE CoreCheckPermissionFrom(_, _, _, _, _)
CoreCheckPermissionFrom(c, i, principal, resource, action) ==
    IF i > Len(c.permissions)
    THEN FALSE
    ELSE LET permission == c.permissions[i] IN
         IF /\ PrincipalMatchesCore(permission.principal, principal)
            /\ Contains(permission.actions, action)
            /\ IsCoveredBy(resource, permission.resource)
            /\ (permission.row_filter = None
                \/ CoreEvaluateRowFilter(c, CHOOSE f \in permission.row_filter : TRUE,
                                         resource))
         THEN TRUE
         ELSE CoreCheckPermissionFrom(c, i + 1, principal, resource, action)

\* PermissionEngine::check_permission
CoreCheckPermission(c, principal, resource, action) ==
    CoreCheckPermissionFrom(c, 1, principal, resource, action)

\* mutant: grant_permission that puts the new permission in front of the list
CoreGrantedInFront(c, permission) ==
    [c EXCEPT !.permissions =
        <<permission>> \o
        SelectSeq(@, LAMBDA p : ~(p.principal = permission.principal
                                  /\ p.resource = permission.resource))]

\* PermissionEngine::grant_permission : retain, push
CoreGranted(c, permission) ==
    [c EXCEPT !.permissions =
        Append(SelectSeq(@, LAMBDA p : ~(p.principal = permission.principal
                                          /\ p.resource = permission.resource)),
               permission)]

\* PermissionEngine::revoke_permission : retain
CoreRevoked(c, principal, resource, actions) ==
    [c EXCEPT !.permissions =
        SelectSeq(@, LAMBDA p : ~(/\ p.principal = principal
                                  /\ p.resource = resource
                                  /\ \E i \in 1..Len(actions) :
                                        Contains(p.actions, actions[i])))]

\* PermissionEngine::grant_permission
CoreGrantPermission(permission) ==
    /\ Len(CoreGranted(core, permission).permissions) <= MaxPerms
    /\ core' = CoreGranted(core, permission)
    /\ last' = [op |-> "coreGrant", permission |-> permission]
    /\ UNCHANGED <<state, engine, state_file, file, calls>>

\* PermissionEngine::revoke_permission
CoreRevokePermission(principal, resource, actions) ==
    /\ core' = CoreRevoked(core, principal, resource, actions)
    /\ last' = [op |-> "coreRevoke", principal |-> principal,
                resource |-> resource, actions |-> actions]
    /\ UNCHANGED <<state, engine, state_file, file, calls>>

\* PermissionEngine::set_session_context
CoreSetSessionContext(key, value) ==
    /\ core' = [core EXCEPT !.session_context = MapInsert(@, key, value)]
    /\ last' = [op |-> "coreSetSessionContext", key |-> key, value |-> value]
    /\ UNCHANGED <<state, engine, state_file, file, calls>>

\* PermissionEngine::create_tag
CoreCreateTag(tag) ==
    /\ core' = [core EXCEPT !.tags = MapInsert(@, tag.key, tag)]
    /\ last' = [op |-> "coreCreateTag", tag |-> tag]
    /\ UNCHANGED <<state, engine, state_file, file, calls>>

\* the inputs of the core engine's operations
CoreFilter == RowFilterWith(RegionFilterText, [user_region |-> "west"])
CoreGrantKeys == {Role("mgr"), User("bob")} \X {SalesOrders}
CoreGrantInputs ==
    {Permission(k[1], k[2], <<"Select">>, FALSE, f) :
        k \in CoreGrantKeys, f \in {None, Some(CoreFilter)}}
CoreContextKeys == {"user_region", "user_department"}
CoreContextValues == {"west", "east"}

NextCore ==
    \/ \E permission \in CoreGrantInputs : CoreGrantPermission(permission)
    \/ \E k \in CoreGrantKeys : CoreRevokePermission(k[1], k[2], <<"Select">>)
    \/ \E key \in CoreContextKeys, value \in CoreContextValues :
            CoreSetSessionContext(key, value)
    \/ \E tag \in TagInputs : CoreCreateTag(tag)

SpecCore == Init /\ [][NextCore]_vars

-----------------------------------------------------------------------------

(* The backend over a state file that defines a role with a member, driven *)
(* with grants on a table, on a column subset of it and on its database,   *)
(* and with action lists that the grant operation takes as they are.       *)

\* sales.orders restricted to the column region
SalesOrdersRegion == Table("sales", "orders", Some(<<"region">>))

AccessKeys ==
    {Role("mgr"), User("bob")} \X {SalesOrders, SalesOrdersRegion, Database("sales")}

\* the permissions handed to grant: for each pair, a filter-free grant of
\* Insert and GrantWithGrantOption with the grant option, and a filtered
\* grant of Select
AccessGrantInputs ==
    {Permission(k[1], k[2], <<"Insert", "GrantWithGrantOption">>, TRUE, None) :
        k \in AccessKeys}
    \cup
    {Permission(k[1], k[2], <<"Select">>, FALSE, Some(RowFilter(RegionFilterText))) :
        k \in AccessKeys}

AccessRevokeActionLists == {<<"Select">>, <<"Insert", "Delete">>}

AccessContexts == {EmptyMap, [user_region |-> "west"]}

\* the content of the state file
AccessFile ==
    [permissions |-> <<>>, roles |-> [mgr |-> {"bob"}], tags |-> EmptyMap,
     session_context |-> EmptyMap]

\* EmulatorBackend::new(Some(path)) with the file present: load_state
InitAccess ==
    /\ state = AccessFile
    /\ engine = UpdateState(AccessFile)
    /\ state_file = TRUE
    /\ file = Some(AccessFile)
    /\ last = [op |-> "new"]
    /\ core = NewCore
    /\ calls = NoCalls

NextAccess ==
    \/ \E permission \in AccessGrantInputs : GrantPermissions(permission)
    \/ \E k \in AccessKeys, actions \in AccessRevokeActionLists :
            RevokePermissions(k[1], k[2], actions)
    \/ \E name \in {"mgr"} : CreateRole(name)
    \/ \E name \in {"mgr"} : DropRole(name)
    \/ \E context \in AccessContexts : SetSessionContext(context)

SpecAccess == InitAccess /\ [][NextAccess]_vars

-----------------------------------------------------------------------------
(* Every operation of the backend, over the same state file, with action   *)
(* lists that the grant operation takes as they are.                       *)

BackendKeys ==
    {<<Role("mgr"), SalesOrders>>, <<User("bob"), SalesOrders>>,
     <<Role("mgr"), Database("sales")>>}

\* the permissions handed to grant: for each pair, a filter-free grant, a
\* filtered grant, and a grant of no action at all
BackendGrantInputs ==
    {Permission(k[1], k[2], <<"Select", "Insert">>, FALSE, None) : k \in BackendKeys}
    \cup
    {Permission(k[1], k[2], <<"Select">>, FALSE, Some(RowFilter(RegionFilterText))) :
        k \in BackendKeys}
    \cup
    {Permission(k[1], k[2], <<>>, FALSE, None) : k \in BackendKeys}

NextBackend ==
    \/ \E permission \in BackendGrantInputs : GrantPermissions(permission)
    \/ \E k \in BackendKeys, actions \in AccessRevokeActionLists :
            RevokePermissions(k[1], k[2], actions)
    \/ \E name \in {"mgr"} : CreateRole(name)
    \/ \E name \in {"mgr"} : DropRole(name)
    \/ \E tag \in TagInputs : CreateTag(tag)
    \/ \E tag_key \in TagKeys : DeleteTag(tag_key)
    \/ \E context \in AccessContexts : SetSessionContext(context)
    \/ \E context \in AccessContexts :
            TestRowLevelSecurity(User("bob"), SalesOrders, "Select", context)
    \/ Restart

SpecBackend == InitAccess /\ [][NextBackend]_vars

-----------------------------------------------------------------------------

(* lakesql-emulator/src/storage.rs : StateExporter::to_sql_ddl, and        *)
(* lakesql-parser/src/lib.rs : the statements read back.  A statement is   *)
(* held as the parts that the parse functions receive: the grammar file    *)
(* that cuts the text into them is not part of the sources, and each part  *)
(* is taken to be cut out whole, as in the statements of the parser's      *)
(* tests.                                                                  *)

\* format!("{:?}", a).to_uppercase()
FormatAction(a) ==
    CASE a = "Select" -> "SELECT"
      [] a = "Insert" -> "INSERT"
      [] a = "Update" -> "UPDATE"
      [] a = "Delete" -> "DELETE"
      [] a = "CreateTable" -> "CREATETABLE"
      [] a = "DropTable" -> "DROPTABLE"
      [] a = "AlterTable" -> "ALTERTABLE"
      [] a = "Describe" -> "DESCRIBE"
      [] a = "DataLocationAccess" -> "DATALOCATIONACCESS"
      [] a = "GrantWithGrantOption" -> "GRANTWITHGRANTOPTION"

\* parse_action, on a word that is already upper case
ParseAction(word) ==
    CASE word = "SELECT" -> Ok("Select")
      [] word = "INSERT" -> Ok("Insert")
      [] word = "UPDATE" -> Ok("Update")
      [] word = "DELETE" -> Ok("Delete")
      [] word = "CREATE_TABLE" -> Ok("CreateTable")
      [] word = "DROP_TABLE" -> Ok("DropTable")
      [] word = "ALTER_TABLE" -> Ok("AlterTable")
      [] word = "DESCRIBE" -> Ok("Describe")
      [] word = "DATA_LOCATION_ACCESS" -> Ok("DataLocationAccess")
      [] OTHER -> Err("UnknownAction")

\* parse_action_list : the first unknown action fails the statement
RECURSIVE ParseActionList(_)
ParseActionList(words) ==
    IF words = <<>> THEN Ok(<<>>)
    ELSE LET a == ParseAction(Head(words))
             rest == ParseActionList(Tail(words))
         IN  IF ~a.ok THEN a
             ELSE IF ~rest.ok THEN rest
             ELSE Ok(<<a.value>> \o rest.value)

\* to_sql_ddl : principal_str
FormatPrincipal(p) ==
    CASE p.kind = "Role" -> <<"ROLE", p.name>>
      [] p.kind = "User" -> <<"USER", "'", p.name, "'">>
      [] p.kind = "SamlGroup" -> <<"GROUP", "'", p.name, "'">>
      [] p.kind = "ExternalAccount" -> <<"EXTERNAL_ACCOUNT", "'", p.name, "'">>
      [] OTHER -> <<"TAGGED", p.name, "=", "'">> \o p.tag_values \o <<"'">>

\* parse_principal
ParsePrincipal(text) ==
    CASE Head(text) = "ROLE" -> Ok(Role(text[2]))
      [] Head(text) = "USER" -> Ok(User(TrimMatches(Tail(text), "'")[1]))
      [] Head(text) = "GROUP" -> Ok(SamlGroup(TrimMatches(Tail(text), "'")[1]))
      [] Head(text) = "EXTERNAL_ACCOUNT" ->
            Ok(ExternalAccount(TrimMatches(Tail(text), "'")[1]))
      [] OTHER -> Err("UnknownPrincipalType")

\* to_sql_ddl : resource_str, for the databases and tables
FormatResource(r) ==
    CASE r.kind = "Database" -> <<"DATABASE", r.name>>
      [] r.kind = "Table" ->
            <<r.database, ".", r.table>>
                \o (IF r.columns = None THEN <<>>
                    ELSE <<"(">> \o (CHOOSE cols \in r.columns : TRUE) \o <<")">>)

\* parse_resource, parse_table_resource, parse_column_list
ParseResource(text) ==
    IF Head(text) = "DATABASE" THEN Ok(Database(text[2]))
    ELSE IF Len(text) >= 3 /\ text[2] = "."
    THEN Ok(Table(text[1], text[3],
                  IF Len(text) > 3
                  THEN Some(SubSeq(text, 5, Len(text) - 1))
                  ELSE None))
    ELSE Err("UnknownResourceType")

\* to_sql_ddl : the GRANT statement of a permission
GrantStatement(permission) ==
    [kind |-> "GRANT",
     principal |-> FormatPrincipal(permission.principal),
     resource |-> FormatResource(permission.resource),
     actions |-> [i \in 1..Len(permission.actions) |-> FormatAction(permission.actions[i])],
     grant_option |-> IF permission.grant_option
                      THEN <<"WITH", "GRANT", "OPTION">> ELSE <<>>,
     row_filter |-> IF permission.row_filter = None THEN None
                    ELSE Some((CHOOSE f \in permission.row_filter : TRUE).expression)]

\* StateExporter::to_sql_ddl
ToSqlDdl(st) ==
    [permissions |-> [i \in 1..Len(st.permissions) |-> GrantStatement(st.permissions[i])],
     roles |-> {[kind |-> "CREATE ROLE", name |-> r] : r \in DOMAIN st.roles},
     tags |-> {[kind |-> "CREATE TAG", name |-> st.tags[k].key,
                values |-> [i \in 1..Len(st.tags[k].values) |->
                               <<"'", st.tags[k].values[i], "'">>]] :
                  k \in DOMAIN st.tags}]

\* parse_grant_statement, and the Permission execute_ddl_direct builds
ParseGrantStatement(statement) ==
    LET actions == ParseActionList(statement.actions)
        resource == ParseResource(statement.resource)
        principal == ParsePrincipal(statement.principal)
    IN  IF ~actions.ok THEN actions
        ELSE IF ~resource.ok THEN resource
        ELSE IF ~principal.ok THEN principal
        ELSE Ok(Permission(principal.value, resource.value, actions.value,
                           statement.grant_option # <<>>,
                           IF statement.row_filter = None THEN None
                           ELSE Some(RowFilter(CHOOSE t \in statement.row_filter : TRUE))))

\* execute_ddl on the GRANT statements in turn: a statement that does not
\* parse is an error and changes nothing
RECURSIVE ExecuteGrantStatements(_, _)
ExecuteGrantStatements(st, statements) ==
    IF statements = <<>> THEN st
    ELSE LET permission == ParseGrantStatement(Head(statements))
         IN  ExecuteGrantStatements(
                 IF permission.ok THEN Granted(st, permission.value) ELSE st,
                 Tail(statements))

\* execute_ddl on every statement of an export, against an empty store
ExecuteExport(export) ==
    ExecuteGrantStatements(
        [permissions |-> <<>>,
         roles |-> [r \in {s.name : s \in export.roles} |-> {}],
         tags |-> [k \in {s.name : s \in export.tags} |->
                      LET s == CHOOSE s \in export.tags : s.name = k
                      IN  LfTag(k, [i \in 1..Len(s.values) |->
                                       TrimMatches(s.values[i], "'")[1]])],
         session_context |-> EmptyMap],
        export.permissions)

\* the export of the store is executed against an empty store
ExportAndExecute ==
    /\ last' = [op |-> "exportAndExecute", result |-> ExecuteExport(ToSqlDdl(state))]
    /\ UNCHANGED <<state, engine, state_file, file, core, calls>>

\* the permissions handed to grant: each action of the enumeration on its
\* own, and two grants of several attributes
ExportGrantInputs ==
    {Permission(Role("mgr"), SalesOrders, <<a>>, FALSE, None) : a \in Action}
    \cup
    {Permission(User("bob"), Database("sales"), <<"Select", "Describe">>, TRUE, None),
     Permission(User("bob"), SalesOrdersRegion, <<"Select">>, FALSE,
                Some(RowFilter(RegionFilterText)))}

NextExport ==
    \/ \E permission \in ExportGrantInputs : GrantPermissions(permission)
    \/ \E name \in {"mgr"} : CreateRole(name)
    \/ \E tag \in TagInputs : CreateTag(tag)
    \/ ExportAndExecute

SpecExport == Init /\ [][NextExport]_vars

-----------------------------------------------------------------------------

(* The removal operations of the backend, over the same state file.        *)

\* the permissions handed to grant: for each pair, a filter-free grant and a
\* filtered grant
RemovalGrantInputs ==
    {Permission(k[1], k[2], <<"Select", "Insert">>, FALSE, None) : k \in BackendKeys}
    \cup
    {Permission(k[1], k[2], <<"Select">>, FALSE, Some(RowFilter(RegionFilterText))) :
        k \in BackendKeys}

NextRemoval ==
    \/ \E permission \in RemovalGrantInputs : GrantPermissions(permission)
    \/ \E k \in BackendKeys : RevokePermissions(k[1], k[2], <<"Select">>)
    \/ \E name \in {"mgr"} : CreateRole(name)
    \/ \E name \in {"mgr"} : DropRole(name)
    \/ \E tag \in TagInputs : CreateTag(tag)
    \/ \E tag_key \in TagKeys : DeleteTag(tag_key)
    \/ \E context \in AccessContexts : SetSessionContext(context)

SpecRemoval == InitAccess /\ [][NextRemoval]_vars

-----------------------------------------------------------------------------

(* The requests that checks are asked with                                 *)

ReqPrincipals == {Role("mgr"), Role("eng"), User("mgr"), User("bob"), User("alice")}
ReqResources ==
    {SalesOrders, Table("sales", "customers", None), Table("hr", "employees", None),
     Database("sales"), Database("hr")}
ReqActions == {"Select", "Insert", "Delete", "Update"}

\* some entry of st other than those of the pair (principal, resource)
\* matches the request
OtherEntryGrants(st, principal, resource, req_principal, req_resource, action) ==
    \E i \in 1..Len(st.permissions) :
        /\ ~(st.permissions[i].principal = principal
             /\ st.permissions[i].resource = resource)
        /\ MatchesPermission(st, req_principal, req_resource, action, st.permissions[i])

\* the set of the actions of a list
ActionSet(actions) == {actions[i] : i \in 1..Len(actions)}

-----------------------------------------------------------------------------
(* C1 : starting from the empty store, after any sequence of grant,        *)
(* revoke, createRole, dropRole, createTag, deleteTag and                  *)
(* setSessionContext, no two stored permissions have the same              *)
(* (principal, resource) pair.                                             *)
C1_UniqueKeys ==
    \A i, j \in 1..Len(state.permissions) :
        (/\ state.permissions[i].principal = state.permissions[j].principal
         /\ state.permissions[i].resource = state.permissions[j].resource)
            => i = j

\* a grant has replaced the entry of its pair in a store that holds another
\* pair as well
C1_Witness ==
    /\ last.op = "grant"
    /\ last.removed # <<>>
    /\ Len(state.permissions) = 2

(* C2 : granting P1 and then P2 for the same (principal, resource) leaves  *)
(* exactly one entry for the pair, and it is P2 (actions, grant option and *)
(* row filter); an action of P1 that is not in P2 is denied by check       *)
(* afterwards when no other entry grants it.                               *)
C2_RegrantOverrides ==
    (last.op = "grant" /\ last.removed # <<>>) =>
        LET P2 == last.permission
            P1 == last.removed[1]
        IN  /\ SameKey(state, P2.principal, P2.resource) = <<P2>>
            /\ \A a \in Action :
                  (/\ Contains(P1.actions, a)
                   /\ ~Contains(P2.actions, a)
                   /\ ~OtherEntryGrants(engine, P2.principal, P2.resource,
                                        P2.principal, P2.resource, a))
                      => ~CheckPermissions(P2.principal, P2.resource, a)

\* P2 has replaced a P1 that differs from it in actions, grant option and
\* filter, and an action of P1 is no longer granted
C2_Witness ==
    /\ last.op = "grant"
    /\ last.removed # <<>>
    /\ last.removed[1].grant_option # last.permission.grant_option
    /\ last.removed[1].row_filter # last.permission.row_filter
    /\ Contains(last.removed[1].actions, "Delete")
    /\ ~Contains(last.permission.actions, "Delete")
    /\ ~OtherEntryGrants(engine, last.permission.principal, last.permission.resource,
                         last.permission.principal, last.permission.resource, "Delete")
    /\ ~CheckPermissions(last.permission.principal, last.permission.resource, "Delete")

(* C3 : revoke(p, r, A) removes as a whole every entry of (p, r) whose     *)
(* actions share an action with A, and changes no other entry: it never    *)
(* subtracts actions.  After granting [Select, Insert, Delete] on (p, r)   *)
(* and revoking [Delete], no entry of (p, r) remains and check(p, r,       *)
(* Select) is false when no other entry grants it.                         *)
C3_RevokeStep ==
    last'.op = "revoke" =>
        LET p == last'.principal
            r == last'.resource
            A == last'.actions
            Hit(e) == /\ e.principal = p
                      /\ e.resource = r
                      /\ ActionSet(e.actions) \cap ActionSet(A) # {}
        IN  /\ \A i \in 1..Len(state.permissions) :
                  Hit(state.permissions[i])
                      <=> ~Contains(state'.permissions, state.permissions[i])
            /\ \A j \in 1..Len(state'.permissions) :
                  Contains(state.permissions, state'.permissions[j])
            /\ Len(state'.permissions) <= Len(state.permissions)
            /\ \A i \in 1..Len(state.permissions) :
                  (/\ Hit(state.permissions[i])
                   /\ state.permissions[i].actions = <<"Select", "Insert", "Delete">>
                   /\ A = <<"Delete">>)
                      => /\ SameKey(state', p, r) = <<>>
                         /\ ~OtherEntryGrants(engine', p, r, p, r, "Select")
                               => ~CheckPermission(engine', p, r, "Select")

C3_RevokeRemovesWholeEntries == [][C3_RevokeStep]_vars

\* [Delete] has been revoked from an entry holding [Select, Insert, Delete]:
\* the entry is gone and Select is denied
C3_Witness ==
    /\ last.op = "revoke"
    /\ last.actions = <<"Delete">>
    /\ last.removed # <<>>
    /\ last.removed[1].actions = <<"Select", "Insert", "Delete">>
    /\ SameKey(state, last.principal, last.resource) = <<>>
    /\ ~CheckPermissions(last.principal, last.resource, "Select")

\* the outcome of evaluating the row filter of entry e for a request on
\* resource: Ok(TRUE), Ok(FALSE) or an error
FilterOutcome(st, e, resource) ==
    EvaluateFilter(CHOOSE f \in e.row_filter : TRUE, st.session_context,
                   CreateSampleRowData(resource))

\* the first three conditions of a match: principal, action, resource
MatchesUpToFilter(st, principal, resource, action, e) ==
    /\ PrincipalMatches(st, principal, e.principal)
    /\ action \in ActionSet(e.actions)
    /\ IsCoveredBy(resource, e.resource)

C5_FilterErrorIsNonMatch ==
    \A p \in ReqPrincipals, r \in ReqResources, a \in ReqActions :
        LET n == Len(engine.permissions)
            Fails(i) == /\ engine.permissions[i].row_filter # None
                        /\ ~FilterOutcome(engine, engine.permissions[i], r).ok
        IN  /\ CheckPermissions(p, r, a) \in BOOLEAN
            /\ \A i \in 1..n :
                  Fails(i) => ~MatchesPermission(engine, p, r, a, engine.permissions[i])
            /\ (\E i, j \in 1..n :
                    /\ i < j
                    /\ Fails(i)
                    /\ MatchesPermission(engine, p, r, a, engine.permissions[j]))
                  => CheckPermissions(p, r, a)
            /\ (\A i \in 1..n :
                    MatchesUpToFilter(engine, p, r, a, engine.permissions[i]) => Fails(i))
                  => ~CheckPermissions(p, r, a)

\* the first entry matches the request but its filter reads a context key
\* that is missing, the second matches fully: the check is true
C5_Witness ==
    /\ Len(engine.permissions) = 2
    /\ MatchesUpToFilter(engine, Role("mgr"), SalesOrders, "Select", engine.permissions[1])
    /\ engine.permissions[1].row_filter # None
    /\ FilterOutcome(engine, engine.permissions[1], SalesOrders)
           = Err("SessionContextKeyNotFound")
    /\ MatchesPermission(engine, Role("mgr"), SalesOrders, "Select", engine.permissions[2])
    /\ CheckPermissions(Role("mgr"), SalesOrders, "Select")

\* the same with a first entry whose filter text cannot be evaluated
C5_WitnessUnparsable ==
    /\ Len(engine.permissions) = 2
    /\ MatchesUpToFilter(engine, Role("mgr"), SalesOrders, "Select", engine.permissions[1])
    /\ engine.permissions[1].row_filter = Some(RowFilter(BogusFilterText))
    /\ FilterOutcome(engine, engine.permissions[1], SalesOrders)
           = Err("CannotEvaluateExpression")
    /\ CheckPermissions(Role("mgr"), SalesOrders, "Select")

\* C5: check always answers: on every store and every request it returns a
\* boolean, and an entry whose row filter fails to evaluate counts as not
\* matching, so the answer is true exactly when some entry fully matches.
C5_CheckAlwaysAnswers ==
    \A p \in ReqPrincipals, r \in ReqResources, a \in ReqActions :
        /\ ~CheckPermissionPanics(engine, p, r, a)
        /\ CheckPermission(engine, p, r, a)
              = \E i \in 1..Len(engine.permissions) :
                    MatchesPermission(engine, p, r, a, engine.permissions[i])

\* the first entry is granted to the role with the filter  region = ' , the
\* second matches the role's request fully, and the check does not return
C5_UnparsableFilterPanics ==
    /\ Len(engine.permissions) = 2
    /\ engine.permissions[1].row_filter = Some(RowFilter(DanglingQuoteText))
    /\ MatchesPermission(engine, Role("mgr"), SalesOrders, "Select", engine.permissions[2])
    /\ CheckPermissionPanics(engine, Role("mgr"), SalesOrders, "Select")

-----------------------------------------------------------------------------
(* C6 : after createRole(r), then addMember(r, u), then a grant of action  *)
(* a on resource x to Role(r) with no other grant present, the check of    *)
(* User(u) for a on x is true, and the check of every user that was not    *)
(* made a member of r is false.                                            *)
C6_RoleIndirectionStep ==
    (/\ last.op = "addMember" /\ last.result = "Ok"
     /\ last'.op = "grant"
     /\ last'.permission.principal = Role(last.role)
     /\ Len(state'.permissions) = 1)
    => \A a \in ActionSet(last'.permission.actions) :
          /\ CheckPermission(engine', User(last.user), last'.permission.resource, a)
          /\ \A v \in MemberNames :
                v \notin engine.roles[last.role]
                => ~CheckPermission(engine', User(v), last'.permission.resource, a)

C6_RoleIndirection == [][C6_RoleIndirectionStep]_vars

-----------------------------------------------------------------------------
\* the tables and the databases checks are asked about
ReqTables == {r \in ReqResources : r.kind = "Table"}
ReqDatabases == {r \in ReqResources : r.kind = "Database"}

\* the stored entries of a Role that carry Select on a resource of a kind
RoleSelectEntries(kind) ==
    {i \in 1..Len(state.permissions) :
        /\ state.permissions[i].principal.kind = "Role"
        /\ state.permissions[i].resource.kind = kind
        /\ Contains(state.permissions[i].actions, "Select")}

(* C7 : while the store holds a grant of Select on Database(d) to a Role R *)
(* with no row filter, the check of R for Select is true on every table of *)
(* d, and false on every table of another database that no other entry     *)
(* grants.                                                                 *)
C7_DatabaseCoversItsTables ==
    \A i \in RoleSelectEntries("Database") :
        LET e == state.permissions[i] IN
        e.row_filter = None =>
            \A x \in ReqTables :
                IF x.database = e.resource.name
                THEN CheckPermissions(e.principal, x, "Select")
                ELSE OtherEntryGrants(engine, e.principal, e.resource,
                                      e.principal, x, "Select")
                     \/ ~CheckPermissions(e.principal, x, "Select")

\* Select on DATABASE sales has just been granted to a role, with no filter,
\* next to another entry: sales.customers is allowed, hr.employees is denied
C7_Witness ==
    /\ last.op = "grant"
    /\ last.permission.resource = Database("sales")
    /\ last.permission.principal = Role("mgr")
    /\ last.permission.row_filter = None
    /\ Len(state.permissions) = 2
    /\ RoleSelectEntries("Database") # {}
    /\ CheckPermissions(Role("mgr"), Table("sales", "customers", None), "Select")
    /\ ~CheckPermissions(Role("mgr"), Table("hr", "employees", None), "Select")

(* C8 : a grant of Select on Table(d, t) to a Role R gives R nothing on    *)
(* another table of d and nothing on Database(d): when no other entry      *)
(* grants them, those checks are false.                                    *)
C8_NoSidewaysOrUpwardsCoverage ==
    \A i \in RoleSelectEntries("Table") :
        LET e == state.permissions[i] IN
        /\ \A x \in ReqTables :
              (/\ x.database = e.resource.database
               /\ x.table # e.resource.table
               /\ ~OtherEntryGrants(engine, e.principal, e.resource,
                                    e.principal, x, "Select"))
              => ~CheckPermissions(e.principal, x, "Select")
        /\ \A x \in ReqDatabases :
              ~OtherEntryGrants(engine, e.principal, e.resource,
                                e.principal, x, "Select")
              => ~CheckPermissions(e.principal, x, "Select")

\* the only grant is Select on sales.orders to a role, with no filter:
\* sales.orders is allowed, sales.customers and DATABASE sales are denied
C8_Witness ==
    /\ last.op = "grant"
    /\ Len(state.permissions) = 1
    /\ RoleSelectEntries("Table") = {1}
    /\ state.permissions[1].resource = SalesOrders
    /\ state.permissions[1].row_filter = None
    /\ CheckPermissions(state.permissions[1].principal, SalesOrders, "Select")
    /\ ~CheckPermissions(state.permissions[1].principal,
                         Table("sales", "customers", None), "Select")
    /\ ~CheckPermissions(state.permissions[1].principal, Database("sales"), "Select")

-----------------------------------------------------------------------------
\* the store holds Select on sales.orders for Role(mgr) under the filter
\* region = SESSION_CONTEXT('user_region')
RegionEntryStored ==
    \E i \in 1..Len(state.permissions) :
        /\ state.permissions[i].principal = Role("mgr")
        /\ state.permissions[i].resource = SalesOrders
        /\ Contains(state.permissions[i].actions, "Select")
        /\ state.permissions[i].row_filter = Some(RowFilter(RegionFilterText))

(* C9 : with Select on sales.orders granted to Role(mgr) under the filter  *)
(* region = SESSION_CONTEXT('user_region'), and the representative row of  *)
(* sales.orders having region = west, the check of Role(mgr) for Select on *)
(* sales.orders is true whenever the store's session context is            *)
(* {user_region: west}, and false whenever it is {user_region: east} and   *)
(* no other entry grants the request.                                      *)
C9_CheckFollowsSessionContext ==
    (RegionEntryStored /\ CreateSampleRowData(SalesOrders).region = "west")
    => /\ state.session_context = [user_region |-> "west"]
          => CheckPermissions(Role("mgr"), SalesOrders, "Select")
       /\ (/\ state.session_context = [user_region |-> "east"]
           /\ ~OtherEntryGrants(engine, Role("mgr"), SalesOrders,
                                Role("mgr"), SalesOrders, "Select"))
          => ~CheckPermissions(Role("mgr"), SalesOrders, "Select")

\* setSessionContext({user_region: east}) has just returned, the filtered
\* entry is stored, and the check is denied
C9_Witness ==
    /\ last.op = "setSessionContext"
    /\ last.context = [user_region |-> "east"]
    /\ RegionEntryStored
    /\ ~CheckPermissions(Role("mgr"), SalesOrders, "Select")

(* C10 : a dropRole(n) step leaves the role n undefined and no stored      *)
(* permission with principal Role(n); the permissions of every other       *)
(* principal stay, in their order; every other role keeps its members;     *)
(* the tags and the session context are unchanged.                         *)
C10_DropRoleStep ==
    last'.op = "dropRole" =>
        LET n == last'.name IN
        /\ n \notin DOMAIN state'.roles
        /\ \A i \in 1..Len(state'.permissions) :
              state'.permissions[i].principal # Role(n)
        /\ state'.permissions
              = SelectSeq(state.permissions, LAMBDA p : p.principal # Role(n))
        /\ DOMAIN state'.roles = DOMAIN state.roles \ {n}
        /\ \A r \in DOMAIN state'.roles : state'.roles[r] = state.roles[r]
        /\ state'.tags = state.tags
        /\ state'.session_context = state.session_context

C10_DropRoleRemovesRoleAndItsPermissions == [][C10_DropRoleStep]_vars

\* dropRole(mgr) has just removed the entry of Role(mgr) from between the
\* entries of Role(eng) and User(mgr), and eng keeps its member
C10_Witness ==
    /\ last.op = "dropRole"
    /\ last.name = "mgr"
    /\ Len(last.removed) = 1
    /\ Len(state.permissions) = 2
    /\ state.permissions[1].principal = Role("eng")
    /\ state.permissions[2].principal = User("mgr")
    /\ "mgr" \notin DOMAIN state.roles
    /\ state.roles["eng"] = {"bob"}
    /\ state.tags # EmptyMap

-----------------------------------------------------------------------------
(* C11 : an addMember or removeMember step on a role name that is not      *)
(* defined returns RoleNotFound and changes nothing: no role is created    *)
(* and no membership changes.  On a defined role it returns Ok, adds       *)
(* (removes) exactly that user to (from) that role, and leaves every other *)
(* role, the permissions, the tags and the session context as they were.   *)
C11_MembershipStep ==
    last'.op \in {"addMember", "removeMember"} =>
        /\ state' = state
        /\ IF last'.role \notin DOMAIN engine.roles
           THEN /\ last'.result = "RoleNotFound"
                /\ engine' = engine
           ELSE /\ last'.result = "Ok"
                /\ DOMAIN engine'.roles = DOMAIN engine.roles
                /\ engine'.roles[last'.role]
                      = IF last'.op = "addMember"
                        THEN engine.roles[last'.role] \cup {last'.user}
                        ELSE engine.roles[last'.role] \ {last'.user}
                /\ \A r \in DOMAIN engine.roles \ {last'.role} :
                      engine'.roles[r] = engine.roles[r]
                /\ engine'.permissions = engine.permissions
                /\ engine'.tags = engine.tags
                /\ engine'.session_context = engine.session_context

C11_MembershipOperations == [][C11_MembershipStep]_vars

\* addMember has just failed on an undefined role while another role is
\* defined and has a member: the role map still lacks the name
C11_Witness ==
    /\ last.op = "addMember"
    /\ last.result = "RoleNotFound"
    /\ last.role \notin DOMAIN engine.roles
    /\ \E r \in DOMAIN engine.roles : engine.roles[r] # {}

\* removeMember has just succeeded on a role with two members and left the
\* other one
C11_WitnessRemoved ==
    /\ last.op = "removeMember"
    /\ last.result = "Ok"
    /\ last.role \in DOMAIN engine.roles
    /\ Cardinality(engine.roles[last.role]) = 1
    /\ last.user \notin engine.roles[last.role]

-----------------------------------------------------------------------------
(* C12 : setSessionContext(m) makes the store's session context exactly m, *)
(* so that a key present before and absent from m is gone, and leaves the  *)
(* permissions and the tags unchanged.  Stated for the store of the core   *)
(* crate, whose set_session_context(key, value) is given the one-pair map  *)
(* m = {key: value}.                                                       *)
C12_CoreSetSessionContextStep ==
    last'.op = "coreSetSessionContext" =>
        /\ core'.session_context = MapInsert(EmptyMap, last'.key, last'.value)
        /\ core'.permissions = core.permissions
        /\ core'.tags = core.tags

C12_CoreSetSessionContextReplaces == [][C12_CoreSetSessionContextStep]_vars

\* the same statement for EmulatorBackend::set_session_context, together
\* with its consequence for a filter that reads a key m no longer has
C12_BackendSetSessionContextStep ==
    last'.op = "setSessionContext" =>
        /\ state'.session_context = last'.context
        /\ engine'.session_context = last'.context
        /\ state'.permissions = state.permissions
        /\ state'.roles = state.roles
        /\ state'.tags = state.tags
        /\ \A i \in 1..Len(state'.permissions) :
              (/\ state'.permissions[i].row_filter = Some(RowFilter(RegionFilterText))
               /\ "user_region" \notin DOMAIN last'.context)
              => \A p \in ReqPrincipals, x \in ReqResources, a \in ReqActions :
                    ~MatchesPermission(engine', p, x, a, state'.permissions[i])

C12_BackendSetSessionContextReplaces == [][C12_BackendSetSessionContextStep]_vars

-----------------------------------------------------------------------------
(* C13 : with a state file configured, after every public backend          *)
(* operation that has returned success the persisted snapshot equals the   *)
(* in-memory store (permissions, roles, tags, session context), so that a  *)
(* restart reloads exactly the last completed state.                       *)
C13_SnapshotStep ==
    (state_file /\ last'.op # "restart" /\ state' # state)
    => file' = Some(state')

C13_SnapshotEqualsStore == [][C13_SnapshotStep]_vars

\* the same, as the step a restart takes: it changes nothing of the store
C13_RestartStep == last'.op = "restart" => state' = state

C13_RestartReloadsLastState == [][C13_RestartStep]_vars

-----------------------------------------------------------------------------
\* no two entries of a permission list have the same (principal, resource)
NoDuplicateKeys(permissions) ==
    \A i, j \in 1..Len(permissions) :
        (permissions[i].principal = permissions[j].principal
         /\ permissions[i].resource = permissions[j].resource) => i = j

(* C14 : mutations of a shared store exclude each other and exclude the    *)
(* checks: while a caller is inside a grant no other call is in progress;  *)
(* a check that is in progress reads a store on which no mutation is       *)
(* partially applied (the engine's copy is the store, with one entry per   *)
(* key); and whenever no grant is in progress the store has one entry per  *)
(* key, so two concurrent grants for a key cannot leave two entries.       *)
C14_MutationsAreExclusive ==
    /\ \A c, d \in Callers : (c # d /\ Mutating(c)) => calls[d] = Idle
    /\ (\E c \in Callers : calls[c].pc = "scan")
       => /\ engine = state
          /\ NoDuplicateKeys(engine.permissions)
    /\ (\A c \in Callers : ~Mutating(c)) => NoDuplicateKeys(state.permissions)

\* a re-grant is half applied (the old entry of the key is removed from the
\* store and the new one is not yet pushed) and the other caller is held off
C14_Witness ==
    /\ Mutating("c1")
    /\ calls["c1"].pc = "push"
    /\ \E i \in 1..Len(engine.permissions) :
          /\ engine.permissions[i].principal = calls["c1"].permission.principal
          /\ engine.permissions[i].resource = calls["c1"].permission.resource
    /\ \A i \in 1..Len(state.permissions) :
          ~(state.permissions[i].principal = calls["c1"].permission.principal
            /\ state.permissions[i].resource = calls["c1"].permission.resource)
    /\ calls["c2"] = Idle
    /\ ~ENABLED CheckCall("c2", Role("mgr"), SalesOrders, "Insert")


-----------------------------------------------------------------------------
(* C15 *)

\* C15: for every store state and every request, whenever check_permission
\* returns a boolean, check_permission_with_reason returns the same boolean.
C15_WithReasonAgreesWithCheck ==
    \A p \in ReqPrincipals, r \in ReqResources, a \in ReqActions :
        ~CheckPermissionPanics(engine, p, r, a) =>
            /\ ~CheckPermissionWithReasonPanics(engine, p, r, a)
            /\ CheckPermissionWithReason(engine, p, r, a)[1]
                   = CheckPermission(engine, p, r, a)

\* on the requests that both calls answer, the two booleans are equal
C15_AgreesWhereBothReturn ==
    \A p \in ReqPrincipals, r \in ReqResources, a \in ReqActions :
        (/\ ~CheckPermissionPanics(engine, p, r, a)
         /\ ~CheckPermissionWithReasonPanics(engine, p, r, a)) =>
            CheckPermissionWithReason(engine, p, r, a)[1]
                = CheckPermission(engine, p, r, a)

\* the store holds one entry, granted to bob with the filter  region = ' ,
\* and alice asks: check_permission answers false, the diagnostic panics
C15_DiagnosticPanics ==
    /\ Len(engine.permissions) = 1
    /\ engine.permissions[1].principal = User("bob")
    /\ ~CheckPermissionPanics(engine, User("alice"), SalesOrders, "Select")
    /\ ~CheckPermission(engine, User("alice"), SalesOrders, "Select")
    /\ CheckPermissionWithReasonPanics(engine, User("alice"), SalesOrders, "Select")


-----------------------------------------------------------------------------
(* C16 .. C19 : the evaluator                                              *)

\* the value that an operand of a comparison resolves to in the call that
\* last records
Resolved(operand) == ResolveValue(operand, last.session_context, last.row_data)

\* the outcome of a part of the text of the call that last records,
\* evaluated on its own
PartOutcome(part) == EvaluateExpression(part, last.session_context, last.row_data)

\* C16: a filter  L != R  whose operands resolve evaluates to true when the
\* resolved values of L and R are different strings and to false when they
\* are equal.
C16_InequalityComparesResolvedValues ==
    last.op = "evaluateFilter" =>
        \A l, r \in EvalOperands :
            (/\ last.expression = Ne(l, r)
             /\ Resolved(l).ok
             /\ Resolved(r).ok)
            => last.result = Ok(Resolved(l).value # Resolved(r).value)

\* status != 'inactive'  against a row with status = active is not true
C16_InequalityExampleIsFalse ==
    /\ last.op = "evaluateFilter"
    /\ last.expression = Ne(Col("status"), Lit("inactive"))
    /\ "status" \in DOMAIN last.row_data
    /\ last.row_data.status = "active"
    /\ last.result = Ok(FALSE)

\* C17: a filter made of comparisons joined by " AND " evaluates to true
\* exactly when every part, evaluated on its own, evaluates to true.
C17_AndIsTrueWhenEveryPartIs ==
    last.op = "evaluateFilter" =>
        \A x, y \in EvalParts :
            last.expression = And(x, y) =>
                ((last.result = Ok(TRUE))
                    <=> (PartOutcome(x) = Ok(TRUE) /\ PartOutcome(y) = Ok(TRUE)))

\* region = SESSION_CONTEXT('user_region') AND department =
\* SESSION_CONTEXT('user_department') , with the row's region and department
\* equal to the two context values, is an error
C17_AndExampleIsError ==
    /\ last.op = "evaluateFilter"
    /\ last.expression = And(Eq(Col("region"), Ctx("user_region")),
                             Eq(Col("department"), Ctx("user_department")))
    /\ last.session_context = MapInsert([user_region |-> "west"],
                                        "user_department", "sales")
    /\ last.row_data.region = "west"
    /\ last.row_data.department = "sales"
    /\ last.result = Err("SessionContextKeyNotFound")

\* C18: a filter made of comparisons joined by " OR " evaluates to true
\* exactly when at least one part, evaluated on its own, evaluates to true.
C18_OrIsTrueWhenSomePartIs ==
    last.op = "evaluateFilter" =>
        \A x, y \in EvalParts :
            last.expression = Or(x, y) =>
                ((last.result = Ok(TRUE))
                    <=> (PartOutcome(x) = Ok(TRUE) \/ PartOutcome(y) = Ok(TRUE)))

\* region = 'east' OR region = 'west'  against a row with region = west is
\* false
C18_OrExampleIsFalse ==
    /\ last.op = "evaluateFilter"
    /\ last.expression = Or(Eq(Col("region"), Lit("east")), Eq(Col("region"), Lit("west")))
    /\ last.row_data.region = "west"
    /\ last.result = Ok(FALSE)

\* C19: when an operand of an equality or of an inequality is
\* SESSION_CONTEXT('k') and k is absent from the session context, the
\* evaluation yields an error, never true and never false.
C19_MissingKeyIsError ==
    last.op = "evaluateFilter" =>
        \A l, r \in EvalOperands, k \in {"user_region", "user_department"} :
            (/\ last.expression \in {Eq(l, r), Ne(l, r)}
             /\ Ctx(k) \in {l, r}
             /\ k \notin DOMAIN last.session_context)
            => ~last.result.ok

\* the same for the equalities alone
C19_MissingKeyIsErrorInEquality ==
    last.op = "evaluateFilter" =>
        \A l, r \in EvalOperands, k \in {"user_region", "user_department"} :
            (/\ last.expression = Eq(l, r)
             /\ Ctx(k) \in {l, r}
             /\ k \notin DOMAIN last.session_context)
            => ~last.result.ok

\* SESSION_CONTEXT('user_region') != 'west'  with an empty session context
\* is false
C19_MissingKeyInequalityIsFalse ==
    /\ last.op = "evaluateFilter"
    /\ last.expression = Ne(Ctx("user_region"), Lit("west"))
    /\ last.session_context = EmptyMap
    /\ last.result = Ok(FALSE)


-----------------------------------------------------------------------------
(* C20 *)

\* C20: grant is idempotent: a grant of P that follows a grant of the same
\* P leaves the store as the first grant left it, with one entry for P's
\* key, and that entry is P.
C20_GrantTwiceStep ==
    (/\ last.op = "grant"
     /\ last'.op = "grant"
     /\ last'.permission = last.permission)
    => /\ state' = state
       /\ SameKey(state', last'.permission.principal, last'.permission.resource)
              = <<last'.permission>>
       /\ (state_file => file' = Some(state))

C20_GrantIsIdempotent == [][C20_GrantTwiceStep]_vars

\* a grant has replaced an entry equal to the permission it grants, in a
\* store that holds another entry too, and the store holds the permission
\* once
C20_Witness ==
    /\ last.op = "grant"
    /\ last.removed = <<last.permission>>
    /\ Len(state.permissions) = 2
    /\ state.permissions[2] = last.permission
    /\ state.permissions[1] # last.permission


-----------------------------------------------------------------------------
(* C21 *)

\* C21: every permission held by the store has a non-empty action set.
C21_ActionSetsAreNonEmpty ==
    \A i \in 1..Len(state.permissions) : state.permissions[i].actions # <<>>

\* the grant operation has stored the permission it was handed, and the
\* permission names no action
C21_EmptyGrantStored ==
    /\ last.op = "grant"
    /\ last.permission.actions = <<>>
    /\ Contains(state.permissions, last.permission)


-----------------------------------------------------------------------------
(* C22 *)

\* the two cases in which a request principal resolves against the
\* principal of an entry
Resolves(st, request, entry) ==
    \/ /\ request.kind = entry.kind
       /\ request.kind \in {"User", "Role", "SamlGroup", "ExternalAccount"}
       /\ request.name = entry.name
    \/ /\ request.kind = "User"
       /\ entry.kind = "Role"
       /\ entry.name \in DOMAIN st.roles
       /\ request.name \in st.roles[entry.name]

\* C22: a request principal resolves against an entry's principal only when
\* both are of the same kind (User, Role, SamlGroup, ExternalAccount) with
\* equal value, or the request is User(u) and the entry is Role(r) with u a
\* member of r; a Role request never resolves against a User entry, a
\* TaggedPrincipal on either side never resolves, and the check of a request
\* is true exactly when it resolves against some entry that grants it.
C22_PrincipalResolution ==
    \A p \in PrincipalInputs :
        /\ \A i \in 1..Len(engine.permissions) :
              LET e == engine.permissions[i].principal IN
              /\ PrincipalMatches(engine, p, e) = Resolves(engine, p, e)
              /\ (p.kind = "Role" /\ e.kind = "User") => ~PrincipalMatches(engine, p, e)
              /\ ("TaggedPrincipal" \in {p.kind, e.kind}) => ~PrincipalMatches(engine, p, e)
        /\ CheckPermission(engine, p, SalesOrders, "Select")
              = \E i \in 1..Len(engine.permissions) :
                    Resolves(engine, p, engine.permissions[i].principal)

\* the store holds an entry of the role mgr, of which bob is a member, and
\* an entry of a tagged principal: bob is allowed through the role, the
\* user mgr and the tagged principal itself are not
C22_Witness ==
    /\ engine.roles = [mgr |-> {"bob"}]
    /\ Len(engine.permissions) = 2
    /\ engine.permissions[1].principal = TaggedPrincipal("department", <<"finance">>)
    /\ engine.permissions[2].principal = Role("mgr")
    /\ CheckPermission(engine, User("bob"), SalesOrders, "Select")
    /\ ~CheckPermission(engine, User("mgr"), SalesOrders, "Select")
    /\ ~CheckPermission(engine, TaggedPrincipal("department", <<"finance">>),
                        SalesOrders, "Select")

\* the store holds an entry of the user mgr only, and the role mgr is denied
C22_WitnessRoleAgainstUser ==
    /\ Len(engine.permissions) = 1
    /\ engine.permissions[1].principal = User("mgr")
    /\ ~CheckPermission(engine, Role("mgr"), SalesOrders, "Select")
    /\ CheckPermission(engine, User("mgr"), SalesOrders, "Select")


-----------------------------------------------------------------------------
(* C23 *)

\* the members of a sequence
Range(seq) == {seq[i] : i \in 1..Len(seq)}

\* C23: for every non-empty store, executing the statements of its export
\* against an empty store reproduces the permissions (principal, resource,
\* actions, grant option, filter), the roles and the tags of the store,
\* regardless of order.
C23_ExportRoundTrip ==
    (/\ last.op = "exportAndExecute"
     /\ state.permissions # <<>>)
    => /\ Range(last.result.permissions) = Range(state.permissions)
       /\ DOMAIN last.result.roles = DOMAIN state.roles
       /\ last.result.tags = state.tags

\* the same for the stores whose permissions name no action other than
\* Select, Insert, Update, Delete and Describe
C23_ExportRoundTripOfOneWordActions ==
    (/\ last.op = "exportAndExecute"
     /\ state.permissions # <<>>
     /\ \A i \in 1..Len(state.permissions) :
           \A j \in 1..Len(state.permissions[i].actions) :
               state.permissions[i].actions[j]
                   \in {"Select", "Insert", "Update", "Delete", "Describe"})
    => /\ Range(last.result.permissions) = Range(state.permissions)
       /\ DOMAIN last.result.roles = DOMAIN state.roles
       /\ last.result.tags = state.tags

\* the store holds one grant, of CreateTable, and the execution of its
\* export leaves the store without permissions
C23_CreateTableIsLost ==
    /\ last.op = "exportAndExecute"
    /\ Len(state.permissions) = 1
    /\ state.permissions[1].actions = <<"CreateTable">>
    /\ last.result.permissions = <<>>


-----------------------------------------------------------------------------
(* C24 *)

\* the entries of st whose principal the request principal resolves against
\* and whose resource covers the requested resource
EntriesFor(st, principal, resource) ==
    {i \in 1..Len(st.permissions) :
        /\ PrincipalMatches(st, principal, st.permissions[i].principal)
        /\ IsCoveredBy(resource, st.permissions[i].resource)}

\* C24: when the only entry for a principal on a resource is a filter-free
\* grant with action set S, the check of the principal on the resource is
\* true exactly for the actions in S; no action and no grant option implies
\* another action.
C24_ActionMembershipIsExact ==
    \A p \in ReqPrincipals, r \in ReqResources \cup {SalesOrdersRegion} :
        \A i \in EntriesFor(engine, p, r) :
            (/\ EntriesFor(engine, p, r) = {i}
             /\ engine.permissions[i].row_filter = None)
            => \A a \in Action :
                  CheckPermissions(p, r, a) = Contains(engine.permissions[i].actions, a)

\* the only entry for the role on the table grants Insert and
\* GrantWithGrantOption with the grant option: these two are allowed, Select
\* is not
C24_Witness ==
    /\ EntriesFor(engine, Role("mgr"), SalesOrders) = {1}
    /\ engine.permissions[1].row_filter = None
    /\ engine.permissions[1].actions = <<"Insert", "GrantWithGrantOption">>
    /\ engine.permissions[1].grant_option
    /\ CheckPermissions(Role("mgr"), SalesOrders, "Insert")
    /\ CheckPermissions(Role("mgr"), SalesOrders, "GrantWithGrantOption")
    /\ ~CheckPermissions(Role("mgr"), SalesOrders, "Select")


-----------------------------------------------------------------------------
(* C25 *)

\* the column subsets that requests on sales.orders name
ColumnSubsets == {None, Some(<<"region">>), Some(<<"amount">>), Some(<<"region", "amount">>)}

\* C25: a grant on Table(d, t) with any column subset covers a request on
\* Table(d, t) with any column subset: a filter-free entry on the table
\* allows its actions to its principal whatever columns the request names.
C25_CoverageIgnoresColumns ==
    \A i \in 1..Len(engine.permissions), cols \in ColumnSubsets :
        LET e == engine.permissions[i]
            request == Table("sales", "orders", cols)
        IN  e.resource.kind = "Table" =>
                /\ IsCoveredBy(request, e.resource)
                /\ e.row_filter = None =>
                      \A j \in 1..Len(e.actions) :
                          CheckPermissions(e.principal, request, e.actions[j])

\* the only entry of the store is a filter-free grant on the column region
\* of sales.orders, and a check that names the column amount is allowed
C25_Witness ==
    /\ Len(engine.permissions) = 1
    /\ engine.permissions[1].resource = SalesOrdersRegion
    /\ engine.permissions[1].row_filter = None
    /\ engine.permissions[1].principal = User("bob")
    /\ CheckPermissions(User("bob"), Table("sales", "orders", Some(<<"amount">>)), "Insert")
    /\ CheckPermissions(User("bob"), SalesOrders, "Insert")


-----------------------------------------------------------------------------
(* C26 *)

\* C26: after every operation of the backend, the load at startup included,
\* the state cached by the engine equals the store in its four parts.
C26_EngineEqualsStore ==
    /\ engine.permissions = state.permissions
    /\ engine.roles = state.roles
    /\ engine.tags = state.tags
    /\ engine.session_context = state.session_context

\* an operation has returned on a store that holds a permission, a role
\* with a member, a tag and a session context key
C26_Witness ==
    /\ last.op = "grant"
    /\ engine = state
    /\ state.roles = [mgr |-> {"bob"}]
    /\ DOMAIN state.tags # {}
    /\ DOMAIN state.session_context # {}
    /\ CheckPermissions(User("bob"), SalesOrders, "Insert")

\* the backend has been constructed again over the file it saved
C26_WitnessLoaded ==
    /\ last.op = "restart"
    /\ engine = state
    /\ state.permissions # <<>>


-----------------------------------------------------------------------------
(* C27 *)

\* C27: a revoke, a dropRole or a deleteTag never widens access: every
\* request that is denied before the operation is denied after it.
C27_RemovalStep ==
    last'.op \in {"revoke", "dropRole", "deleteTag"} =>
        \A p \in {Role("mgr"), User("bob"), User("alice")},
           r \in {SalesOrders, SalesOrdersRegion, Database("sales")},
           a \in {"Select", "Insert", "Delete"} :
            ~CheckPermission(engine, p, r, a) => ~CheckPermission(engine', p, r, a)

C27_RemovalNeverWidens == [][C27_RemovalStep]_vars

\* a revoke has removed an entry while the store keeps another one, and the
\* request of the revoked pair for the revoked action is denied
C27_Witness ==
    /\ last.op = "revoke"
    /\ last.removed # <<>>
    /\ state.permissions # <<>>
    /\ \A i \in 1..Len(last.actions) :
          ~CheckPermissions(last.principal, last.resource, last.actions[i])

\* a dropRole has removed the entries of the role, and its member is denied
C27_WitnessDropRole ==
    /\ last.op = "dropRole"
    /\ last.removed # <<>>
    /\ ~CheckPermissions(User("bob"), SalesOrders, "Insert")

\* a deleteTag has removed a tag from a store that holds permissions
C27_WitnessDeleteTag ==
    /\ last.op = "deleteTag"
    /\ DOMAIN state.tags = {}
    /\ state.permissions # <<>>


-----------------------------------------------------------------------------
(* C28 *)

\* the revoke of actions from the pair (principal, resource) leaves the
\* entry e alone
OutsideRevoke(e, principal, resource, actions) ==
    \/ e.principal # principal
    \/ e.resource # resource
    \/ \A i \in 1..Len(actions) : ~Contains(e.actions, actions[i])

\* C28: revoke(p, r, A) changes only entries whose principal equals p and
\* whose resource equals r exactly, column subset included; every other
\* entry, and an entry of (p, r) whose actions are disjoint from A, is left
\* as it was and where it was, and so are the roles, the tags and the
\* session context.
C28_RevokeStep ==
    last'.op = "revoke" =>
        /\ state'.permissions =
              SelectSeq(state.permissions,
                        LAMBDA e : OutsideRevoke(e, last'.principal, last'.resource,
                                                 last'.actions))
        /\ \A i \in 1..Len(state.permissions) :
              LET e == state.permissions[i] IN
              (e.resource # last'.resource \/ e.principal # last'.principal)
                  => Contains(state'.permissions, e)
        /\ state'.roles = state.roles
        /\ state'.tags = state.tags
        /\ state'.session_context = state.session_context

C28_RevokeFrame == [][C28_RevokeStep]_vars

\* Insert has been revoked from bob on sales.orders and his entry is gone;
\* the entry of the role mgr, of which bob is a member, is still there, and
\* bob's check for Insert on sales.orders is still true
C28_Witness ==
    /\ last.op = "revoke"
    /\ last.principal = User("bob")
    /\ last.resource = SalesOrders
    /\ Contains(last.actions, "Insert")
    /\ last.removed # <<>>
    /\ \E i \in 1..Len(state.permissions) : state.permissions[i].principal = Role("mgr")
    /\ CheckPermissions(User("bob"), SalesOrders, "Insert")

\* the same with an entry of bob on the column region of the table left in
\* the store
C28_WitnessColumns ==
    /\ last.op = "revoke"
    /\ last.principal = User("bob")
    /\ last.resource = SalesOrders
    /\ Contains(last.actions, "Insert")
    /\ last.removed # <<>>
    /\ \E i \in 1..Len(state.permissions) :
          /\ state.permissions[i].principal = User("bob")
          /\ state.permissions[i].resource = SalesOrdersRegion
    /\ CheckPermissions(User("bob"), SalesOrders, "Insert")

\* Select has been revoked from a pair whose entry grants Insert and
\* GrantWithGrantOption, and the entry is still there
C28_WitnessDisjoint ==
    /\ last.op = "revoke"
    /\ last.actions = <<"Select">>
    /\ last.removed = <<>>
    /\ \E i \in 1..Len(state.permissions) :
          /\ state.permissions[i].principal = last.principal
          /\ state.permissions[i].resource = last.resource


-----------------------------------------------------------------------------
(* C29 *)

\* C29: CREATE ROLE on a name that is already defined replaces the member
\* set of that role by the empty set and leaves every stored permission,
\* those of the role included, and every other role unchanged; afterwards
\* no user resolves through that role.
C29_CreateRoleStep ==
    (last'.op = "createRole" /\ last'.name \in DOMAIN state.roles) =>
        /\ DOMAIN state'.roles = DOMAIN state.roles
        /\ state'.roles[last'.name] = {}
        /\ \A r \in DOMAIN state.roles \ {last'.name} : state'.roles[r] = state.roles[r]
        /\ state'.permissions = state.permissions
        /\ \A u \in {"bob", "alice", "mgr"} :
              ~PrincipalMatches(engine', User(u), Role(last'.name))

C29_CreateRoleEmptiesMembers == [][C29_CreateRoleStep]_vars

\* the role mgr has been created again while the store holds a grant of
\* Insert to it: the role has no member, the role is still allowed, and
\* bob, its member in the state file, is denied
C29_Witness ==
    /\ last.op = "createRole"
    /\ last.name = "mgr"
    /\ state.roles = [mgr |-> {}]
    /\ Len(state.permissions) = 1
    /\ state.permissions[1].principal = Role("mgr")
    /\ state.permissions[1].resource = SalesOrders
    /\ CheckPermissions(Role("mgr"), SalesOrders, "Insert")
    /\ ~CheckPermissions(User("bob"), SalesOrders, "Insert")


-----------------------------------------------------------------------------

(* The core PermissionEngine and the emulator backend driven with the same *)
(* sequence of grants and revokes: every operation runs on the backend and  *)
(* is then run on the core engine with the same arguments.                  *)

AgreePrincipals ==
    {User("bob"), Role("mgr"), SamlGroup("mgr"), ExternalAccount("mgr")}

AgreeKeys ==
    (AgreePrincipals \X {SalesOrders})
        \cup {<<User("bob"), Database("sales")>>,
              <<TaggedPrincipal("department", <<"finance">>), SalesOrders>>}

AgreeGrantInputs ==
    {Permission(k[1], k[2], <<"Select">>, FALSE, None) : k \in AgreeKeys}
        \cup {Permission(User("bob"), SalesOrders, <<"Insert">>, TRUE,
                         Some(RowFilter(RegionFilterText)))}

AgreeRevokeActionLists == {<<"Select">>, <<"Insert">>}

\* both stores have run the whole sequence
Replayed == last.op \in {"new", "coreGrant", "coreRevoke"}

\* EmulatorBackend::grant_permissions, as the next operation of the sequence
AgreeGrant(permission) ==
    /\ Replayed
    /\ GrantPermissions(permission)

\* PermissionEngine::grant_permission with the permission the backend was given
AgreeCoreGrant ==
    /\ last.op = "grant"
    /\ CoreGrantPermission(last.permission)

\* EmulatorBackend::revoke_permissions, as the next operation of the sequence
AgreeRevoke(principal, resource, actions) ==
    /\ Replayed
    /\ RevokePermissions(principal, resource, actions)

\* PermissionEngine::revoke_permission with the arguments the backend was given
AgreeCoreRevoke ==
    /\ last.op = "revoke"
    /\ CoreRevokePermission(last.principal, last.resource, last.actions)

NextAgree ==
    \/ \E permission \in AgreeGrantInputs : AgreeGrant(permission)
    \/ AgreeCoreGrant
    \/ \E k \in AgreeKeys, actions \in AgreeRevokeActionLists :
            AgreeRevoke(k[1], k[2], actions)
    \/ AgreeCoreRevoke

SpecAgree == Init /\ [][NextAgree]_vars

FilterFree(permissions) ==
    \A i \in 1..Len(permissions) : permissions[i].row_filter = None

\* C30: after the same sequence of grants and revokes has run on the core
\* PermissionEngine and on the emulator backend, the two permission lists are
\* equal, and when no entry has a row filter and no role is defined the two
\* check_permission functions return the same boolean for every request whose
\* principal is a User, a Role, a SamlGroup or an ExternalAccount.
C30_StoresAgree ==
    Replayed =>
        /\ core.permissions = state.permissions
        /\ (FilterFree(state.permissions) /\ engine.roles = EmptyMap) =>
              \A principal \in AgreePrincipals \cup {User("alice"), Role("bob")},
                 resource \in {SalesOrders, SalesOrdersRegion, Database("sales")},
                 action \in {"Select", "Insert"} :
                    CoreCheckPermission(core, principal, resource, action)
                        = CheckPermission(engine, principal, resource, action)

C30_Witness ==
    /\ last.op = "coreRevoke"
    /\ last.principal = User("bob")
    /\ Len(state.permissions) = 1
    /\ core.permissions = state.permissions
    /\ FilterFree(state.permissions)
    /\ engine.roles = EmptyMap
    /\ CoreCheckPermission(core, SamlGroup("mgr"), SalesOrdersRegion, "Select")
    /\ CheckPermission(engine, SamlGroup("mgr"), SalesOrdersRegion, "Select")
    /\ ~CoreCheckPermission(core, User("bob"), SalesOrders, "Select")
    /\ ~CheckPermission(engine, User("bob"), SalesOrders, "Select")

=============================================================================
